---- MODULE Spec2Model ----
(***************************************************************************)
(* State-machine model of the chat gateway: the per-chat serial queue with *)
(* its global concurrency gate and sliding-window rate limiter (queue.ts), *)
(* the cron scheduler loop (scheduler.ts, db.ts), the bot handlers that    *)
(* admit turns (bot.ts) and the PID-file lock of the service shell         *)
(* (index.ts).                                                             *)
(*                                                                         *)
(* One step of the model is one run-to-completion step of the event loop:  *)
(* a handler or timer callback (a macrotask), or the continuation of an    *)
(* await (a microtask).  Macrotasks only run when no microtask is pending. *)
(***************************************************************************)
EXTENDS Integers, Sequences, FiniteSets, TLC

\* ---------------------------------------------------------------- constants

\* queue.ts:11
MAX_CONCURRENT == 2
\* config.ts: MAX_MESSAGES_PER_MINUTE
MAX_MESSAGES_PER_MINUTE == 10
\* queue.ts:24, the width of the sliding window in ms
WINDOW_MS == 60000
\* config.ts: SCHEDULER_POLL_MS
SCHEDULER_POLL_MS == 60000

\* config.ts: ALLOWED_CHAT_IDS, entries matching -?\d+
ALLOWED_CHAT_IDS == {"1", "-2"}

\* index.ts:57 createTaskExecutor: the queue id of a scheduled execution
TaskKeyPlain(chatId) == chatId
TaskKey(chatId) == "__task__" \o chatId

\* every key enqueue is ever called with
Keys == ALLOWED_CHAT_IDS \cup {"__task__" \o c : c \in ALLOWED_CHAT_IDS}

\* ------------------------------------------------------------------- bounds

\* enqueue calls in one behaviour of SpecQueue and of SpecSched
MaxTasks == 3
\* enqueue calls in one behaviour of SpecRate
MaxAdmit == 11
\* clock steps in one behaviour
MaxTicks == 3
\* sweeps of the scheduler in progress at once
MaxSweeps == 2
\* service processes started in one behaviour of SpecLock
MaxProcs == 3

\* the clock advances in steps of half a rate-limit window
TickMs == WINDOW_MS \div 2
\* the clock reading at startup: on a second boundary, or half a second past it
StartOffsets == {0, 500}

\* how the body of a queued task can end:
\* success, a thrown exception, the runner's timeout, the user's /cancel
EndKinds == {"success", "exception", "timeout", "cancel"}

VARIABLES
  now,                 \* Date.now(), ms
  startedAt,           \* the clock at startup (bounds the clock only)
  rateLimitWindows,    \* queue.ts rateLimitWindows: key -> timestamps
  chatQueues,          \* queue.ts chatQueues: key -> tail chain (0: no entry)
  activeConcurrent,    \* queue.ts activeConcurrent
  concurrencyWaiters,  \* queue.ts concurrencyWaiters: resolvers, as task refs
  tasks,               \* the promises created by enqueue, per key, in order
  hasConversation,     \* chat -> the conversation log of the chat is non-empty
  admitted,            \* history: the instants of all enqueue calls, per key
  rejectedPrior,       \* history: chat -> admissions counted in the window at
                       \* the chat's last rejected attempt (-1: none rejected)
  scheduled_tasks,     \* db.ts table scheduled_tasks: id -> row
  sweeps,              \* the invocations of runDueTasks in progress
  pollInterval,        \* scheduler.ts pollInterval: next firing, -1 undefined
  execCount,           \* history: executor invocations since next_run was written
  pidFile,             \* the content of PID_FILE (NoFile: absent)
  proc,                \* the service processes: pid -> position in main(),
                       \* and the pid acquireLock read from the file
  turn,                \* bot.ts processMessage / agent.ts runAgent: chat -> the
                       \* locals of the chat's turn in progress
  activeAborts,        \* bot.ts activeAborts: chat -> an entry is present
  typingIntervals,     \* chat -> live typing intervals (startTyping)
  sessions,            \* db.ts table sessions: rows <<chat_id, session_id>>
  turnLog,             \* history: chat -> what the chat's last ended turn did
  lastCancel,          \* history: the last /cancel: chat, its answer
  lastCommand,         \* history: the last /deltask, /pausetask, /resumetask
  memories,            \* db.ts table memories: chat -> bag of rows, each
                       \* row counted under its <<salience, accessed_at>>
  run,                 \* agent.ts runAgent: the locals of one call that is
                       \* followed event by event
  split,               \* bot.ts splitMessage: the locals of one call
  voiceEnabledChats,   \* bot.ts voiceEnabledChats
  sent,                \* history: the chats a command handler replied to
  lastUpdate,          \* history: the last update the bot received
  memRow,              \* db.ts table memories: one row, with its salience,
                       \* created_at and accessed_at
  hour,                \* the clock of that row, in hours
  stopped,             \* index.ts shutdown: stopScheduler() has returned
  abortOwner           \* history: chat -> the task of the chat's queue whose
                       \* turn last installed an entry in activeAborts (0 none)

queueVars == <<rateLimitWindows, chatQueues, activeConcurrent,
               concurrencyWaiters, tasks>>
histVars  == <<admitted, rejectedPrior>>
schedVars == <<scheduled_tasks, sweeps, pollInterval, execCount>>
lockVars  == <<pidFile, proc>>
turnVars  == <<turn, activeAborts, typingIntervals, sessions, turnLog,
               lastCancel>>
\* the state added to the queue, scheduler and lock state above
\* the state of the functions that are checked on their own
\* the state behind the bot's first middleware
authVars  == <<voiceEnabledChats, sent, lastUpdate>>
\* one row of the memories table, followed through its life
decayVars == <<memRow, hour>>
pureVars  == <<run, split, authVars, decayVars, stopped, abortOwner>>
extVars   == <<turnVars, lastCommand, memories, pureVars>>
\* the state of the queue, the scheduler and the lock
coreVars  == <<queueVars, histVars, schedVars, lockVars>>
vars == <<now, startedAt, queueVars, hasConversation, histVars, schedVars,
          lockVars, extVars>>
\* the state of the running service
liveVars  == <<now, startedAt, coreVars, hasConversation, turnVars,
               lastCommand, memories, stopped, abortOwner>>

\* ------------------------------------------------------------ task promises

\* A task is the pair of promises enqueue creates: `next` (settles with the
\* body's outcome) and `chain` (its void-typed continuation); `prev` is the
\* chain it was chained on (0: Promise.resolve()), `ran` whether fn was called.
\*   phase "chained"  waiting for the chat predecessor's chain
\*         "waiting"  its resolver is in concurrencyWaiters
\*         "granted"  holds a slot, continuation of the await not yet run
\*         "running"  fn() is executing
\*         "settled"  next has settled, chain has not
\*         "done"     chain has settled
Phases == {"chained", "waiting", "granted", "running", "settled", "done"}

LiveRefs == UNION {{<<k, n>> : n \in 1..Len(tasks[k])} : k \in Keys}
T(r) == tasks[r[1]][r[2]]
TotalTasks == Cardinality(LiveRefs)

\* queue.ts:69-74 the outcome of `next` for a body that ended by `kind`: a
\* body that throws rejects it, every other end (a result, also one reporting
\* a timeout or a cancel, or an error processMessage caught) fulfils it
Outcome(kind) == IF kind = "exception" THEN "rejected" ELSE "fulfilled"

\* queue.ts:77  chain = next.then(() => {}, () => {}): fulfilled either way
ChainOutcomeNoCatch(res) == res
ChainOutcome(res) == "fulfilled"

\* the kinds of work enqueue is called for: an interactive turn (text, voice,
\* photo, document, /respin) or a scheduled execution
TaskKinds == {"turn", "sched"}

\* queue.ts:64-67 the state of the promise the task's callback is chained on:
\* prev = 0 is Promise.resolve()
PrevStateResolved(r) == "fulfilled"
PrevState(r) ==
  IF T(r).prev = 0 THEN "fulfilled"
  ELSE tasks[r[1]][T(r).prev].chain

\* a microtask is queued: the continuation of a settled promise
MicrotaskOf(r) ==
  \/ T(r).phase = "chained" /\ PrevState(r) # "pending"
  \/ T(r).phase = "granted"
  \/ T(r).phase = "settled"

\* ------------------------------------------------------------ rate limiting

\* queue.ts:24  window.filter((t) => now - t < 60_000)
RecentInclusive(window, t) == SelectSeq(window, LAMBDA x : t - x <= WINDOW_MS)
Recent(window, t) == SelectSeq(window, LAMBDA x : t - x < WINDOW_MS)

\* queue.ts:26  recent.length >= MAX_MESSAGES_PER_MINUTE
IsRateLimited(recent) == Len(recent) >= MAX_MESSAGES_PER_MINUTE

\* queue.ts:29-33 recordMessage
RecordMessage(window, t) == Append(window, t)

\* ----------------------------------------------------------------- enqueue

\* queue.ts:58-88 enqueue(chatId, fn), as an update of the queue state:
\* recordMessage, prev = chatQueues.get(chatId) ?? Promise.resolve(),
\* the new pair of promises, chatQueues.set(chatId, chain).
\* `windows` is the rate-limit map the call starts from.
EnqueueHoldingSlot(key, kind, windows) ==
  /\ rateLimitWindows' =
       [windows EXCEPT ![key] = RecordMessage(@, now)]
  /\ tasks' = [tasks EXCEPT ![key] =
       Append(@, [phase |-> "chained", prev |-> chatQueues[key],
                  kind |-> kind, ran |-> FALSE, next |-> "pending",
                  chain |-> "pending"])]
  /\ chatQueues' = [chatQueues EXCEPT ![key] = Len(tasks[key]) + 1]
  /\ admitted' = [admitted EXCEPT ![key] = Append(@, now)]
  /\ activeConcurrent' = activeConcurrent + 1
  /\ UNCHANGED concurrencyWaiters
Enqueue(key, kind, windows) ==
  /\ rateLimitWindows' =
       [windows EXCEPT ![key] = RecordMessage(@, now)]
  /\ tasks' = [tasks EXCEPT ![key] =
       Append(@, [phase |-> "chained", prev |-> chatQueues[key],
                  kind |-> kind, ran |-> FALSE, next |-> "pending",
                  chain |-> "pending"])]
  /\ chatQueues' = [chatQueues EXCEPT ![key] = Len(tasks[key]) + 1]
  /\ admitted' = [admitted EXCEPT ![key] = Append(@, now)]
  /\ UNCHANGED <<activeConcurrent, concurrencyWaiters>>

\* ------------------------------------------------------- concurrency gate

\* queue.ts:37-45 acquireConcurrency, called by task r:
\* a free slot is taken at once, otherwise the resolver is queued
AcquireOffByOne(r, ts) ==
  IF activeConcurrent <= MAX_CONCURRENT
  THEN [t |-> [ts EXCEPT ![r[1]][r[2]].phase = "granted"],
        a |-> activeConcurrent + 1,
        w |-> concurrencyWaiters]
  ELSE [t |-> [ts EXCEPT ![r[1]][r[2]].phase = "waiting"],
        a |-> activeConcurrent,
        w |-> Append(concurrencyWaiters, r)]
AcquireConcurrency(r, ts) ==
  IF activeConcurrent < MAX_CONCURRENT
  THEN [t |-> [ts EXCEPT ![r[1]][r[2]].phase = "granted"],
        a |-> activeConcurrent + 1,
        w |-> concurrencyWaiters]
  ELSE [t |-> [ts EXCEPT ![r[1]][r[2]].phase = "waiting"],
        a |-> activeConcurrent,
        w |-> Append(concurrencyWaiters, r)]

\* queue.ts:47-54 releaseConcurrency: the slot is handed to the oldest waiter
\* (activeConcurrent unchanged), or given back
ReleaseAlwaysDecrements(ts) ==
  IF concurrencyWaiters # <<>>
  THEN LET h == Head(concurrencyWaiters)
       IN [t |-> [ts EXCEPT ![h[1]][h[2]].phase = "granted"],
           a |-> activeConcurrent - 1,
           w |-> Tail(concurrencyWaiters)]
  ELSE [t |-> ts, a |-> activeConcurrent - 1, w |-> concurrencyWaiters]
ReleaseForgetsWaiters(ts) ==
  [t |-> ts, a |-> activeConcurrent - 1, w |-> concurrencyWaiters]
ReleaseNewestWaiter(ts) ==
  IF concurrencyWaiters # <<>>
  THEN LET n == Len(concurrencyWaiters)
           h == concurrencyWaiters[n]
       IN [t |-> [ts EXCEPT ![h[1]][h[2]].phase = "granted"],
           a |-> activeConcurrent,
           w |-> SubSeq(concurrencyWaiters, 1, n - 1)]
  ELSE [t |-> ts, a |-> activeConcurrent - 1, w |-> concurrencyWaiters]
ReleaseConcurrency(ts) ==
  IF concurrencyWaiters # <<>>
  THEN LET h == Head(concurrencyWaiters)
       IN [t |-> [ts EXCEPT ![h[1]][h[2]].phase = "granted"],
           a |-> activeConcurrent,
           w |-> Tail(concurrencyWaiters)]
  ELSE [t |-> ts, a |-> activeConcurrent - 1, w |-> concurrencyWaiters]

\* queue.ts:69-73  try { return await fn() } finally { releaseConcurrency() }:
\* the gate after the body of a task ended by `kind`
Finally(kind, ts) == ReleaseConcurrency(ts)

\* ------------------------------------------------------- steps of a task

\* queue.ts:66-68: the then-callback on prev runs once prev has settled and
\* calls acquireConcurrency; on a rejected prev the callback is skipped and
\* next rejects
StartTask(r) ==
  /\ T(r).phase = "chained"
  /\ PrevState(r) # "pending"
  /\ IF PrevState(r) = "rejected"
     THEN /\ tasks' = [tasks EXCEPT ![r[1]][r[2]].phase = "settled",
                                    ![r[1]][r[2]].next = "rejected"]
          /\ UNCHANGED <<activeConcurrent, concurrencyWaiters>>
     ELSE LET g == AcquireConcurrency(r, tasks)
          IN /\ tasks' = g.t
             /\ activeConcurrent' = g.a
             /\ concurrencyWaiters' = g.w
  /\ UNCHANGED <<now, startedAt, extVars, rateLimitWindows, chatQueues, hasConversation,
                 histVars, schedVars, lockVars>>

\* queue.ts:68-70: the await of acquireConcurrency resumes and fn() is called
Resume(r) ==
  /\ T(r).phase = "granted"
  /\ tasks' = [tasks EXCEPT ![r[1]][r[2]].phase = "running",
                            ![r[1]][r[2]].ran = TRUE]
  /\ UNCHANGED <<now, startedAt, extVars, rateLimitWindows, chatQueues, activeConcurrent,
                 concurrencyWaiters, hasConversation, histVars, schedVars,
                 lockVars>>

\* bot.ts processMessage step 7: a turn whose agent run returned (also with
\* an error, a timeout or a cancel) is saved to the conversation log; a
\* scheduled execution is not.  A /respin turn skips the save (skipLog), but
\* it is only enqueued when the log is non-empty already, so whether the log
\* is empty does not depend on it.
LogsConversation(kind, end) == kind = "turn" /\ end # "exception"

\* a scheduled execution runs the agent without an abort signal
\* (index.ts createTaskExecutor): /cancel cannot end it
CanEnd(kind, end) == kind = "sched" => end # "cancel"

\* ------------------------------------------------------------- event loop

SweepIds == 1..MaxSweeps

\* a sweep's await of executor(task) can continue: the promise enqueue
\* returned has settled
SweepMicrotask(s) ==
  /\ sweeps[s].stage = "executing"
  /\ T(sweeps[s].ref).next # "pending"

MicrotaskPending ==
  \/ \E r \in LiveRefs : MicrotaskOf(r)
  \/ \E s \in SweepIds : SweepMicrotask(s)

\* queue.ts:69-74: fn() settles (I/O completes, the timeout fires or /cancel
\* aborts the run); the finally releases the slot and next settles
BodySettle(r, end) ==
  /\ ~MicrotaskPending
  /\ T(r).phase = "running"
  /\ CanEnd(T(r).kind, end)
  /\ LET ts == [tasks EXCEPT ![r[1]][r[2]].phase = "settled",
                             ![r[1]][r[2]].next = Outcome(end)]
         g == Finally(end, ts)
     IN /\ tasks' = g.t
        /\ activeConcurrent' = g.a
        /\ concurrencyWaiters' = g.w
  /\ hasConversation' =
       IF LogsConversation(T(r).kind, end)
       THEN [hasConversation EXCEPT ![r[1]] = TRUE]
       ELSE hasConversation
  /\ UNCHANGED <<now, startedAt, extVars, rateLimitWindows, chatQueues, histVars,
                 schedVars, lockVars>>

\* queue.ts:81-85 the cleanup callback of the chain of task r
CleanupAlways(q, r) == [q EXCEPT ![r[1]] = 0]
CleanupEntry(q, r) ==
  IF q[r[1]] = r[2] THEN [q EXCEPT ![r[1]] = 0] ELSE q

\* queue.ts:77-85: chain settles; the cleanup callback removes the map entry
\* if this chain is still the tail
ChainSettle(r) ==
  /\ T(r).phase = "settled"
  /\ tasks' = [tasks EXCEPT ![r[1]][r[2]].phase = "done",
                            ![r[1]][r[2]].chain = ChainOutcome(T(r).next)]
  /\ chatQueues' = CleanupEntry(chatQueues, r)
  /\ UNCHANGED <<now, startedAt, extVars, rateLimitWindows, activeConcurrent,
                 concurrencyWaiters, hasConversation, histVars, schedVars,
                 lockVars>>

\* ---------------------------------------------------------------- handlers

\* the admissions of `key` less than 60 000 ms before t, counted on the
\* history of enqueue calls (not on the pruned window)
AdmittedWithin(key, t) ==
  Len(SelectSeq(admitted[key], LAMBDA x : t - x < WINDOW_MS))

\* bot.ts message:text / message:voice / message:photo / message:document:
\* if (isRateLimited(chatId)) { reply; return }  await enqueue(chatId, ...)
\* isRateLimited stores the pruned window (queue.ts:25) on both paths.
\* `cap` bounds the enqueue calls of a behaviour.
MessageHandler(c, cap) ==
  /\ ~MicrotaskPending
  /\ LET recent == Recent(rateLimitWindows[c], now)
         pruned == [rateLimitWindows EXCEPT ![c] = recent]
     IN IF IsRateLimited(recent)
        THEN /\ rateLimitWindows' = pruned
             /\ rejectedPrior' =
                  [rejectedPrior EXCEPT ![c] = AdmittedWithin(c, now)]
             /\ UNCHANGED <<chatQueues, activeConcurrent, concurrencyWaiters,
                            tasks, admitted>>
        ELSE /\ TotalTasks < cap
             /\ Enqueue(c, "turn", pruned)
             /\ UNCHANGED rejectedPrior
  /\ UNCHANGED <<now, startedAt, extVars, hasConversation, schedVars, lockVars>>

\* bot.ts command respin: with an empty conversation log it only replies;
\* otherwise it enqueues the replay turn (no rate-limit probe)
Respin(c, cap) ==
  /\ ~MicrotaskPending
  /\ hasConversation[c]
  /\ TotalTasks < cap
  /\ Enqueue(c, "turn", rateLimitWindows)
  /\ UNCHANGED <<now, startedAt, extVars, hasConversation, rejectedPrior, schedVars, lockVars>>

\* bot.ts commands gmail / cal / todo / n8n: the check-only probe
\* (the webhook call itself touches no state of the model)
ProbeCommand(c) ==
  /\ ~MicrotaskPending
  /\ rateLimitWindows' =
       [rateLimitWindows EXCEPT ![c] = Recent(rateLimitWindows[c], now)]
  /\ rateLimitWindows' # rateLimitWindows
  /\ UNCHANGED <<now, startedAt, extVars, chatQueues, activeConcurrent,
                 concurrencyWaiters, tasks, hasConversation, histVars,
                 schedVars, lockVars>>

\* the clock advances
Tick ==
  /\ ~MicrotaskPending
  /\ now + TickMs <= startedAt + MaxTicks * TickMs
  /\ now' = now + TickMs
  /\ UNCHANGED <<startedAt, extVars, queueVars, hasConversation, histVars, schedVars,
                 lockVars>>

\* --------------------------------------------------------------- scheduler

\* the rows of scheduled_tasks, in rowid order
TaskOrder == <<"t1", "t2">>
ScheduledIds == {TaskOrder[i] : i \in 1..Len(TaskOrder)}

\* the cron expressions of the model and their periods
CronPeriodMs(cronExpr) ==
  IF cronExpr = "* * * * *" THEN 60000 ELSE 120000

\* cron-parser: the next instant (ms) the expression is due strictly after t
CronNext(cronExpr, t) ==
  LET p == CronPeriodMs(cronExpr)
  IN ((t \div p) + 1) * p

\* scheduler.ts:16-21 computeNextRun(cronExpr, after):
\* Math.floor(expr.next().getTime() / 1000)
ComputeNextRun(cronExpr, after) == CronNext(cronExpr, after) \div 1000

\* scheduler.ts:76 and :85  computeNextRun(task.schedule): after = now
NextRunFromPrevious(row) == ComputeNextRun(row.schedule, row.next_run * 1000)
NextRunAfter(row) == ComputeNextRun(row.schedule, now)

\* db.ts:387-395 getDueTasks: status = 'active' AND next_run <= now (seconds)
GetDueTasksAnyStatus ==
  SelectSeq(TaskOrder,
            LAMBDA id : /\ scheduled_tasks[id].status # "deleted"
                        /\ scheduled_tasks[id].next_run <= now \div 1000)
GetDueTasks ==
  SelectSeq(TaskOrder,
            LAMBDA id : /\ scheduled_tasks[id].status = "active"
                        /\ scheduled_tasks[id].next_run <= now \div 1000)

\* db.ts:397-410 updateTaskAfterRun(id, lastResult, nextRun): UPDATE ... WHERE
\* id = ?, which changes nothing when the row was deleted meanwhile
UpdateTaskAfterRun(rows, id, lastResult, nextRun) ==
  IF rows[id].status = "deleted" THEN rows
  ELSE [rows EXCEPT ![id].last_run = now \div 1000,
                    ![id].last_result = lastResult,
                    ![id].next_run = nextRun]

Min(a, b) == IF a <= b THEN a ELSE b

\* a text by its length, with what it starts with ("ok" for an agent's
\* reply); the length of the short texts of the model
ShortLen == 2
TRUNCATE_MAX == 10000
ELLIPSIS_LEN == 3
ERROR_PREFIX_LEN == 7
NoResult == [head |-> "", len |-> 0]
\* the texts an executor returns or throws: short, or over the limit
ResultLengths == {ShortLen, TRUNCATE_MAX + ShortLen}

\* scheduler.ts:94-98 truncateResult, on the length of the text
TruncateResult(len) ==
  IF len <= TRUNCATE_MAX THEN len
  ELSE Min(len, TRUNCATE_MAX - ELLIPSIS_LEN) + ELLIPSIS_LEN
\* scheduler.ts:77 truncateResult(result)
SuccessResult(len) == [head |-> "ok", len |-> TruncateResult(len)]
\* scheduler.ts:86 `ERROR: ${truncateResult(errMsg)}`
FailureResult(len) ==
  [head |-> "ERROR: ", len |-> ERROR_PREFIX_LEN + TruncateResult(len)]

\* `updateThrew`: the post-failure update of the sweep's last finished
\* iteration threw (scheduler.ts:87)
IdleSweep ==
  [stage |-> "idle", list |-> <<>>, idx |-> 0, ref |-> <<"", 0>>,
   updateThrew |-> FALSE]

\* scheduler.ts:75 executor(task) for the i-th task of the sweep's list, up to
\* its first await: index.ts createTaskExecutor enqueues the agent run under
\* the task namespace of the chat.  `rows` and `ec` are the table and the
\* invocation counts the call starts from.
InvokeExecutor(s, list, i, rows, ec, threw) ==
  LET id  == list[i]
      key == TaskKey(scheduled_tasks[id].chat_id)
  IN /\ TotalTasks < MaxTasks
     /\ Enqueue(key, "sched", rateLimitWindows)
     /\ sweeps' = [sweeps EXCEPT ![s] =
          [stage |-> "executing", list |-> list, idx |-> i,
           ref |-> <<key, Len(tasks[key]) + 1>>, updateThrew |-> threw]]
     /\ scheduled_tasks' = rows
     /\ execCount' = [ec EXCEPT ![id] = @ + 1]

\* scheduler.ts:60-67 runDueTasks up to its first await
RunDueTasks(s) ==
  LET due == GetDueTasks
  IN IF due = <<>>
     THEN UNCHANGED <<queueVars, admitted, scheduled_tasks, sweeps, execCount>>
     ELSE InvokeExecutor(s, due, 1, scheduled_tasks, execCount, FALSE)

\* scheduler.ts:36-50 initScheduler: the immediate sweep, then the interval
\* (index.ts main calls it once, before shutdown can run)
InitScheduler ==
  /\ ~MicrotaskPending
  /\ pollInterval = -1
  /\ ~stopped
  /\ \E s \in SweepIds :
       /\ sweeps[s].stage = "idle"
       /\ \A s2 \in SweepIds : sweeps[s2].stage = "idle" => s <= s2
       /\ RunDueTasks(s)
  /\ pollInterval' = now + SCHEDULER_POLL_MS
  /\ UNCHANGED <<now, startedAt, extVars, hasConversation, rejectedPrior, lockVars>>

\* scheduler.ts:45-47 the interval fires: runDueTasks is called whether or
\* not an earlier sweep is still in progress
PollFire ==
  /\ ~MicrotaskPending
  /\ pollInterval # -1
  /\ now >= pollInterval
  /\ \E s \in SweepIds :
       /\ sweeps[s].stage = "idle"
       /\ \A s2 \in SweepIds : sweeps[s2].stage = "idle" => s <= s2
       /\ RunDueTasks(s)
  /\ pollInterval' = pollInterval + SCHEDULER_POLL_MS
  /\ UNCHANGED <<now, startedAt, extVars, hasConversation, rejectedPrior, lockVars>>

\* scheduler.ts:52-58 stopScheduler, called by shutdown (index.ts:128-146)
\* on SIGINT / SIGTERM: the interval is cleared; shutdown then awaits
\* bot.stop(), during which the event loop goes on
StopScheduler ==
  /\ ~MicrotaskPending
  /\ ~stopped
  /\ pollInterval # -1
  /\ pollInterval' = -1
  /\ stopped' = TRUE
  /\ UNCHANGED <<now, startedAt, queueVars, hasConversation, histVars,
                 scheduled_tasks, sweeps, execCount, lockVars, turnVars,
                 lastCommand, memories, run, split, authVars, decayVars,
                 abortOwner>>

\* the sweep that aborts at the first failing executor
AbortSweep(s, rows, ec, threw) ==
  /\ sweeps' = [sweeps EXCEPT ![s] = [IdleSweep EXCEPT !.updateThrew = threw]]
  /\ scheduled_tasks' = rows
  /\ execCount' = ec
  /\ UNCHANGED <<queueVars, admitted>>
\* scheduler.ts:67 the loop goes on to the next task of the list, the table
\* and the invocation counts being `rows` and `ec`; after the last task
\* runDueTasks returns
NextIteration(s, rows, ec, threw) ==
  IF sweeps[s].idx < Len(sweeps[s].list)
  THEN InvokeExecutor(s, sweeps[s].list, sweeps[s].idx + 1, rows, ec, threw)
  ELSE /\ sweeps' = [sweeps EXCEPT ![s] = [IdleSweep EXCEPT !.updateThrew = threw]]
       /\ scheduled_tasks' = rows
       /\ execCount' = ec
       /\ UNCHANGED <<queueVars, admitted>>

\* scheduler.ts:76-77 (success) and :85-86 (failure): the post-run update of
\* the sweep's current task, then the next iteration of the loop (:67)
FinishTask(s, lastResult) ==
  LET id   == sweeps[s].list[sweeps[s].idx]
      rows == UpdateTaskAfterRun(scheduled_tasks, id, lastResult,
                                 NextRunAfter(scheduled_tasks[id]))
      ec   == [execCount EXCEPT ![id] = 0]
  IN NextIteration(s, rows, ec, FALSE)

\* index.ts:58 the await of enqueue(...) continues in the executor: on a
\* result it goes on to send it (:61); a rejection leaves the executor and
\* is caught by the sweep (scheduler.ts:80-86)
ExecutorResume(s, len) ==
  /\ sweeps[s].stage = "executing"
  /\ T(sweeps[s].ref).next # "pending"
  /\ IF T(sweeps[s].ref).next = "fulfilled"
     THEN /\ sweeps' = [sweeps EXCEPT ![s].stage = "sending"]
          /\ UNCHANGED <<queueVars, admitted, scheduled_tasks, execCount>>
     ELSE FinishTask(s, FailureResult(len))
  /\ UNCHANGED <<now, startedAt, extVars, hasConversation, rejectedPrior, pollInterval,
                 lockVars>>

\* scheduler.ts:80-89 the executor rejected and the post-failure update
\* throws (the store refuses the write): the inner catch logs, nothing is
\* written, and the loop goes on
ExecutorResumeUpdateThrows(s) ==
  /\ sweeps[s].stage = "executing"
  /\ T(sweeps[s].ref).next = "rejected"
  /\ NextIteration(s, scheduled_tasks, execCount, TRUE)
  /\ UNCHANGED <<now, startedAt, extVars, hasConversation, rejectedPrior, pollInterval,
                 lockVars>>

\* index.ts:61-62 sendMessage returns (it catches its own failure), the
\* executor returns the text and the sweep records the run
SendDone(s, len) ==
  /\ ~MicrotaskPending
  /\ sweeps[s].stage = "sending"
  /\ FinishTask(s, SuccessResult(len))
  /\ UNCHANGED <<now, startedAt, extVars, hasConversation, rejectedPrior, pollInterval,
                 lockVars>>

\* ------------------------------------------------------------ task commands

\* /deltask, /pausetask and /resumetask handled in one behaviour
MaxCommands == 2

CommandKinds == {"deltask", "pausetask", "resumetask"}

\* db.ts:412-416 getTask(id): the row, or undefined.  A deleted row is kept
\* with status "deleted": the sweeps in progress hold the task object they
\* fetched, with its chat_id and schedule.
TaskExists(rows, id) == rows[id].status # "deleted"

\* db.ts:429-434 deleteTask
DeleteTask(rows, id) ==
  IF TaskExists(rows, id) THEN [rows EXCEPT ![id].status = "deleted"] ELSE rows
\* db.ts:436-441 pauseTask
PauseTask(rows, id) ==
  IF TaskExists(rows, id) THEN [rows EXCEPT ![id].status = "paused"] ELSE rows
\* db.ts:443-450 resumeTask
ResumeTask(rows, id, nextRun) ==
  IF TaskExists(rows, id)
  THEN [rows EXCEPT ![id].status = "active", ![id].next_run = nextRun]
  ELSE rows

\* schedule-cli.ts:350-355 removeTask(id)
RemoveTask(rows, id) == DeleteTask(rows, id)

\* schedule-cli.ts:357-364 pauseScheduledTask(id)
PauseScheduledTask(rows, id) ==
  IF ~TaskExists(rows, id) THEN rows
  ELSE IF rows[id].status = "paused" THEN rows
  ELSE PauseTask(rows, id)

\* schedule-cli.ts:366-374 resumeScheduledTask(id)
ResumeKeepsNextRun(rows, id) ==
  IF ~TaskExists(rows, id) THEN rows
  ELSE IF rows[id].status = "active" THEN rows
  ELSE ResumeTask(rows, id, rows[id].next_run)
ResumeScheduledTask(rows, id) ==
  IF ~TaskExists(rows, id) THEN rows
  ELSE IF rows[id].status = "active" THEN rows
  ELSE ResumeTask(rows, id, ComputeNextRun(rows[id].schedule, now))

\* bot.ts:516-526 the handlers of /deltask, /pausetask and /resumetask in
\* chat c: the id is ctx.match
TaskCommand(c, kind, id) ==
  /\ ~MicrotaskPending
  /\ lastCommand.n < MaxCommands
  /\ scheduled_tasks' =
       CASE kind = "deltask" -> RemoveTask(scheduled_tasks, id)
         [] kind = "pausetask" -> PauseScheduledTask(scheduled_tasks, id)
         [] kind = "resumetask" -> ResumeScheduledTask(scheduled_tasks, id)
  /\ lastCommand' = [n |-> lastCommand.n + 1, chat |-> c, kind |-> kind,
                     id |-> id]
  /\ UNCHANGED <<now, startedAt, queueVars, hasConversation, histVars, sweeps,
                 pollInterval, execCount, lockVars, turnVars, memories,
                 pureVars>>

\* ---------------------------------------------------------------- PID lock

Pids == 1..MaxProcs
\* the pid of an instance that died earlier and left its PID file behind
DeadPid == MaxProcs + 1
\* the file, as the sequence of the pids written in it: absent, or one pid
NoFile == <<>>
FileOf(pid) == <<pid>>

\* The position of a process in main():
\*   "idle"       not started
\*   "create"     in acquireLock, before the exclusive create (index.ts:20)
\*   "read"       the create failed, before readFileSync (:26)
\*   "probe"      before process.kill(existingPid, 0) (:28)
\*   "overwrite"  the probe threw, before the plain writeFileSync (:36)
\*   "running"    past acquireLock, running the service
\*   "release"    in releaseLock, before existsSync / readFileSync (:41-42)
\*   "unlink"     the file held the own pid, before unlinkSync (:44)
\*   "exited"     left through process.exit
\*   "killed"     ended without running any handler (SIGKILL, power loss)
Alive(q) == q \in Pids /\ proc[q].pc \notin {"idle", "exited", "killed"}

\* main() is entered (index.ts:73-77)
Start(p) ==
  /\ proc[p].pc = "idle"
  /\ proc' = [proc EXCEPT ![p].pc = "create"]
  /\ UNCHANGED <<now, startedAt, extVars, queueVars, hasConversation, histVars,
                 schedVars, pidFile>>

\* index.ts:19-24  writeFileSync(PID_FILE, pid, { flag: 'wx' })
CreateExclusive(p) ==
  /\ proc[p].pc = "create"
  /\ IF pidFile = NoFile
     THEN /\ pidFile' = FileOf(p)
          /\ proc' = [proc EXCEPT ![p].pc = "running"]
     ELSE /\ proc' = [proc EXCEPT ![p].pc = "read"]
          /\ UNCHANGED pidFile
  /\ UNCHANGED <<now, startedAt, extVars, queueVars, hasConversation, histVars,
                 schedVars>>

\* index.ts:26  readFileSync(PID_FILE); if the file is gone the call throws,
\* main() rejects and the process exits with 1 (:165-169)
ReadPid(p) ==
  /\ proc[p].pc = "read"
  /\ IF pidFile = NoFile
     THEN proc' = [proc EXCEPT ![p].pc = "exited"]
     ELSE proc' = [proc EXCEPT ![p].pc = "probe", ![p].existing = pidFile[1]]
  /\ UNCHANGED <<now, startedAt, extVars, queueVars, hasConversation, histVars,
                 schedVars, pidFile>>

\* index.ts:27-34  process.kill(existingPid, 0): exit(1) if the owner is
\* alive, otherwise the file is taken for stale
Probe(p) ==
  /\ proc[p].pc = "probe"
  /\ IF Alive(proc[p].existing)
     THEN proc' = [proc EXCEPT ![p].pc = "exited"]
     ELSE proc' = [proc EXCEPT ![p].pc = "overwrite"]
  /\ UNCHANGED <<now, startedAt, extVars, queueVars, hasConversation, histVars,
                 schedVars, pidFile>>

\* index.ts:36  writeFileSync(PID_FILE, pid): a plain overwrite
Overwrite(p) ==
  /\ proc[p].pc = "overwrite"
  /\ pidFile' = FileOf(p)
  /\ proc' = [proc EXCEPT ![p].pc = "running"]
  /\ UNCHANGED <<now, startedAt, extVars, queueVars, hasConversation, histVars,
                 schedVars>>

\* index.ts:128-146 shutdown on SIGINT / SIGTERM, and the startup failures
\* of :159-161 and :165-169: the process goes on to releaseLock and exits
Shutdown(p) ==
  /\ proc[p].pc = "running"
  /\ proc' = [proc EXCEPT ![p].pc = "release"]
  /\ UNCHANGED <<now, startedAt, extVars, queueVars, hasConversation, histVars,
                 schedVars, pidFile>>

\* index.ts:41-43 releaseLock reads the file: it goes on to unlink only if
\* the file holds the own pid; otherwise the process exits
ReleaseLockOwns(p) == pidFile = FileOf(p)
ReleaseLockRead(p) ==
  /\ proc[p].pc = "release"
  /\ proc' = [proc EXCEPT ![p].pc =
       IF ReleaseLockOwns(p) THEN "unlink" ELSE "exited"]
  /\ UNCHANGED <<now, startedAt, extVars, queueVars, hasConversation, histVars,
                 schedVars, pidFile>>

\* index.ts:44 unlinkSync(PID_FILE) removes whatever file is there now (a
\* missing file throws into the empty catch); then the process exits
ReleaseLockUnlink(p) ==
  /\ proc[p].pc = "unlink"
  /\ pidFile' = NoFile
  /\ proc' = [proc EXCEPT ![p].pc = "exited"]
  /\ UNCHANGED <<now, startedAt, extVars, queueVars, hasConversation, histVars,
                 schedVars>>

\* bot.ts:530-534 /restart and :536-556 /rebuild: process.exit(0) from a
\* timer, without releaseLock
Restart(p) ==
  /\ proc[p].pc = "running"
  /\ proc' = [proc EXCEPT ![p].pc = "exited"]
  /\ UNCHANGED <<now, startedAt, extVars, queueVars, hasConversation, histVars,
                 schedVars, pidFile>>

\* the process is killed outright: no handler runs, the file stays
Kill(p) ==
  /\ proc[p].pc = "running"
  /\ proc' = [proc EXCEPT ![p].pc = "killed"]
  /\ UNCHANGED <<now, startedAt, extVars, queueVars, hasConversation, histVars,
                 schedVars, pidFile>>

\* ------------------------------------------------------------ agent runner

\* turns started per chat in one behaviour
MaxTurns == 2

\* session_id: undefined, or an id the SDK reported
NoSession == ""
SessionIds == {"s1", "s2"}

\* agent.ts handleMessage: the result subtypes and assistant errors of the SDK
ResultSubtypes == {"success", "error_max_turns", "error_max_budget_usd",
                   "error_during_execution"}
AssistantErrors == {"authentication_failed", "billing_error", "rate_limit"}
\* what the query (or a Telegram call) can throw
ThrownMessages == {"Claude Code process exited with code 1", "socket hang up"}

\* the words of a message
MessageWords(msg) ==
  CASE msg = "Claude Code process exited with code 1" ->
         <<"Claude", "Code", "process", "exited", "with", "code", "1">>
    [] msg = "socket hang up" -> <<"socket", "hang", "up">>
    [] msg = "Too Many Requests" -> <<"Too", "Many", "Requests">>
    [] msg = "cats AND dogs" -> <<"cats", "AND", "dogs">>
    [] OTHER -> <<msg>>

\* String.prototype.includes, on words
Includes(words, needle) ==
  \E i \in 1..(Len(words) - Len(needle) + 1) :
    SubSeq(words, i, i + Len(needle) - 1) = needle

\* agent.ts:522-537 formatResultError
FormatResultError(subtype) ==
  CASE subtype = "error_max_turns" ->
         "Task was too complex and reached the turn limit."
    [] subtype = "error_max_budget_usd" -> "Budget limit reached for this query."
    [] subtype = "error_during_execution" -> "An error occurred during execution."
    [] OTHER -> "Agent error"

CANCELLED_LINE == "Request was cancelled."
TIMEOUT_LINE == "Agent timed out."
INTERNAL_ERROR_LINE == "An internal error occurred. Please try again."
NO_RESPONSE_LINE == "No response from agent."
ANSWER == "answer"

\* the locals of processMessage and of the runAgent call inside it:
\*   pc       "idle"     no turn of the chat is executing
\*            "agent"    runAgent iterates over the query
\*            "sending"  the await of the reply (step 8)
\*            "failing"  the await of the reply in the catch block
\*   skipLog  the turn is a /respin replay
\*   sid      opts.sessionId;  rsid  resolvedSessionId
\*   text     resultText;  error  error ("" undefined);  usage  usage # null
\*   tripped  abortController.signal.aborted (the runner's own token)
\*   ext      abortSignal.aborted (the handle in activeAborts)
\*   by       history: who tripped the token first
\*   thrown   history: the message the query threw ("" none)
\*   prior    history: the id the chat's previous run surfaced
\*   replies  history: the replies sent by the turn
\*   ledger   history: saveTokenUsage wrote a row
\*   logged   history: logConversationTurn wrote the user side
\*   caught   the message caught by processMessage ("" none)
\*   ingested history: the rows saveConversationTurn inserted
\*   pruned   history: result.changes of pruneExcessMemories
\*   steps    history: the statements of saveConversationTurn, in the order
\*            they ran
IdleTurn ==
  [pc |-> "idle", skipLog |-> FALSE, sid |-> NoSession, rsid |-> NoSession,
   text |-> "", error |-> "", usage |-> FALSE, tripped |-> FALSE,
   ext |-> FALSE, by |-> "none", thrown |-> "", prior |-> NoSession,
   replies |-> <<>>, ledger |-> FALSE, logged |-> FALSE, caught |-> "",
   ingested |-> 0, pruned |-> 0, steps |-> <<>>]

\* db.ts:228-247 the sessions table, as a set of rows <<chat_id, session_id>>
GetSession(rows, c) ==
  IF \E r \in rows : r[1] = c
  THEN (CHOOSE r \in rows : r[1] = c)[2]
  ELSE NoSession
SetSessionInsertOnly(rows, c, id) == rows \cup {<<c, id>>}
SetSession(rows, c, id) == {r \in rows : r[1] # c} \cup {<<c, id>>}
ClearSession(rows, c) == {r \in rows : r[1] # c}

\* agent.ts:449-457 a system init message sets the session id
SdkInit(c, id) ==
  /\ turn[c].pc = "agent"
  /\ turn' = [turn EXCEPT ![c].rsid = id]
  /\ UNCHANGED <<now, startedAt, coreVars, hasConversation, activeAborts,
                 typingIntervals, sessions, turnLog, lastCancel, lastCommand, pureVars,
                 memories>>

\* agent.ts:493-497, 539-563 an assistant message with an error
SdkAssistantError(c, e) ==
  /\ turn[c].pc = "agent"
  /\ turn' = [turn EXCEPT ![c].error =
       IF e \in {"authentication_failed", "billing_error"} THEN e ELSE @]
  /\ UNCHANGED <<now, startedAt, coreVars, hasConversation, activeAborts,
                 typingIntervals, sessions, turnLog, lastCancel, lastCommand, pureVars,
                 memories>>

\* agent.ts:469-491 a result message, with or without usage figures
SdkResult(c, subtype, withUsage) ==
  /\ turn[c].pc = "agent"
  /\ turn' = [turn EXCEPT
       ![c].text = IF subtype = "success" THEN ANSWER
                   ELSE FormatResultError(subtype),
       ![c].error = IF subtype = "success" THEN @ ELSE subtype,
       ![c].usage = IF withUsage THEN TRUE ELSE @]
  /\ UNCHANGED <<now, startedAt, coreVars, hasConversation, activeAborts,
                 typingIntervals, sessions, turnLog, lastCancel, lastCommand, pureVars,
                 memories>>

\* agent.ts:315 the timeout fires: abortController.abort()
TimerFires(c) ==
  /\ turn[c].pc = "agent"
  /\ ~turn[c].tripped
  /\ turn' = [turn EXCEPT ![c].tripped = TRUE, ![c].by = "timer"]
  /\ UNCHANGED <<now, startedAt, coreVars, hasConversation, activeAborts,
                 typingIntervals, sessions, turnLog, lastCancel, lastCommand, pureVars,
                 memories>>

\* agent.ts:386-398 the catch block of runAgent, for a query that threw msg
RunAgentCatch(t, msg) ==
  IF t.tripped
  THEN LET reason == IF t.ext THEN "cancelled" ELSE "timeout"
       IN [t EXCEPT !.error = reason, !.thrown = msg,
                    !.text = IF t.text # "" THEN t.text
                             ELSE IF reason = "cancelled" THEN CANCELLED_LINE
                             ELSE TIMEOUT_LINE]
  ELSE [t EXCEPT !.error = msg, !.thrown = msg,
                 !.text = IF t.text # "" THEN t.text ELSE INTERNAL_ERROR_LINE]

\* agent.ts:416-418 result.text
ResultText(t) == IF t.text = "" THEN NO_RESPONSE_LINE ELSE t.text

\* ------------------------------------------------------------ memory decay

\* salience in units of 0.0001, time in hours
SALIENCE_UNIT == 10000
\* db.ts:83 salience REAL NOT NULL DEFAULT 1.0
INSERT_SALIENCE == SALIENCE_UNIT
\* db.ts:303 salienceBoost = 0.1 and db.ts:308 MIN(salience + ?, 5.0)
TOUCH_BOOST == 1000
TOUCH_CAP == 50000
\* config.ts:38-39 MEMORY_DECAY_FACTOR = 0.98 (in percent) and
\* MEMORY_MIN_SALIENCE = 0.1
MEMORY_DECAY_FACTOR == 98
MEMORY_MIN_SALIENCE == 1000
\* db.ts:338 the change below which a row is not rewritten: 0.001
DECAY_EPSILON == 10
\* db.ts:316 oneDayAgo = now - 86400
DAY_HOURS == 24
\* the hours and the touches of one behaviour
MaxHours == 30
MaxTouches == 1
\* the boosts touchMemory is called with: its default (memory.ts:156) and
\* 10.0 (db.test.ts:228)
Boosts == {TOUCH_BOOST, 10 * SALIENCE_UNIT}

\* the row: state "absent" (not inserted), "live", "deleted" (by a sweep or
\* by a prune); last: the statement that last wrote or examined it;
\* touches: how often it was touched
NoRow ==
  [state |-> "absent", salience |-> 0, created_at |-> 0, accessed_at |-> 0,
   last |-> "none", touches |-> 0]

\* db.ts:333 salience * Math.pow(MEMORY_DECAY_FACTOR, hours), rounded down
\* to the unit after each factor
RECURSIVE Decayed(_, _)
Decayed(salience, hours) ==
  IF hours = 0 THEN salience
  ELSE Decayed((salience * MEMORY_DECAY_FACTOR) \div 100, hours - 1)

\* db.ts:331-342 the sweep's treatment of one selected row
DecayKeepsEveryRow(row, t) ==
  [row EXCEPT !.salience = Decayed(row.salience, t - row.accessed_at),
              !.last = "decay"]
DecayRow(row, t) ==
  LET hoursSinceAccess == IF t - row.accessed_at > 0
                          THEN t - row.accessed_at ELSE 0
      newSalience == Decayed(row.salience, hoursSinceAccess)
  IN IF newSalience < MEMORY_MIN_SALIENCE
     THEN [row EXCEPT !.state = "deleted", !.last = "decay"]
     ELSE IF newSalience < row.salience - DECAY_EPSILON
     THEN [row EXCEPT !.salience = newSalience, !.last = "decay"]
     ELSE [row EXCEPT !.last = "decay"]

\* db.ts:251-264 insertMemory
InsertRow ==
  /\ memRow.state = "absent"
  /\ memRow' = [state |-> "live", salience |-> INSERT_SALIENCE,
                created_at |-> hour, accessed_at |-> hour, last |-> "insert",
                touches |-> 0]
  /\ UNCHANGED <<liveVars, run, split, authVars, hour>>

\* db.ts:303-312 touchMemory
TouchRow(boost) ==
  /\ memRow.state = "live"
  /\ memRow.touches < MaxTouches
  /\ memRow' = [memRow EXCEPT
       !.salience = Min(@ + boost, TOUCH_CAP),
       !.accessed_at = hour, !.last = "touch", !.touches = @ + 1]
  /\ UNCHANGED <<liveVars, run, split, authVars, hour>>

\* db.ts:314-348 decayAllMemories: the rows created more than a day ago
DecayAllMemories ==
  /\ memRow.state = "live"
  /\ memRow' = IF memRow.created_at < hour - DAY_HOURS
               THEN DecayRow(memRow, hour)
               ELSE memRow
  /\ UNCHANGED <<liveVars, run, split, authVars, hour>>

\* memory.ts:246-261 pruneExcessMemories deletes the row (its chat is over
\* the cap and the row is among the lowest)
PruneRow ==
  /\ memRow.state = "live"
  /\ memRow' = [memRow EXCEPT !.state = "deleted", !.last = "prune"]
  /\ UNCHANGED <<liveVars, run, split, authVars, hour>>

\* time passes
AdvanceHour ==
  /\ hour < MaxHours
  /\ hour' = hour + 1
  /\ UNCHANGED <<liveVars, run, split, authVars, memRow>>

\* ------------------------------------------------- one runAgent call, alone

\* the events of one query
MaxEvents == 3

\* the per-call cache-read figures of assistant events
CacheReads == {5, 7}

\* the SDK messages handleMessage distinguishes (agent.ts:445-520):
\*   system compact_boundary; assistant with an error or with a cache-read
\*   figure; auth_status with or without an error; result with a subtype and
\*   with or without usage figures
Ev(type, subtype, error, cacheRead, usage) ==
  [type |-> type, subtype |-> subtype, error |-> error,
   cacheRead |-> cacheRead, usage |-> usage]
AssistantErrorKinds ==
  {"authentication_failed", "billing_error", "rate_limit", "server_error",
   "max_output_tokens"}
SdkEvents ==
  {Ev("system", "compact_boundary", "", 0, FALSE)}
  \cup {Ev("assistant", "", e, 0, FALSE) : e \in AssistantErrorKinds}
  \cup {Ev("assistant", "", "", n, FALSE) : n \in CacheReads}
  \cup {Ev("auth_status", "", e, 0, FALSE) : e \in {"", "Token expired"}}
  \cup {Ev("result", "success", "", 0, u) : u \in BOOLEAN}
  \cup {Ev("result", "error_max_turns", "", 0, TRUE)}

\* agent.ts:327 usage = null
NoUsage == [set |-> FALSE, didCompact |-> FALSE, lastCallCacheRead |-> 0]

\* the locals of runAgent (agent.ts:291-328):
\*   pc         "none" not called, "streaming" in the for-await, "returned"
\*   hasSignal  opts.abortSignal is given;  ext  abortSignal.aborted
\*   tripped    abortController.signal.aborted
\*   timer      the timeout timer is pending;  subscribed  onAbort is a
\*              listener of abortSignal
\*   armed, listened, queried   history: setTimeout, addEventListener and
\*              query were called
\*   events     history: the messages the query yielded
\*   text, error, thrown   as in the turn record
\*   didCompact, lastCallCacheRead, usage   the usage tracking locals
NoRun ==
  [pc |-> "none", hasSignal |-> FALSE, ext |-> FALSE, tripped |-> FALSE,
   timer |-> FALSE, subscribed |-> FALSE, armed |-> FALSE,
   listened |-> FALSE, queried |-> FALSE, events |-> <<>>, text |-> "",
   error |-> "", thrown |-> "", didCompact |-> FALSE,
   lastCallCacheRead |-> 0, usage |-> NoUsage]

\* agent.ts:539-563 handleAssistantError
AssistantErrorAlwaysSet(st, e) == [st EXCEPT !.error = e]
HandleAssistantError(st, e) ==
  IF e \in {"authentication_failed", "billing_error"}
  THEN [st EXCEPT !.error = e]
  ELSE st

\* agent.ts:384 the usage state handed to handleMessage with each message
StaleUsageState(st) == [didCompact |-> FALSE, lastCallCacheRead |-> 0]
UsageState(st) ==
  [didCompact |-> st.didCompact, lastCallCacheRead |-> st.lastCallCacheRead]

\* agent.ts:445-520 handleMessage, with the handlers of agent.ts:368-383
HandleMessage(st, ev) ==
  CASE ev.type = "system" ->
         IF ev.subtype = "compact_boundary"
         THEN [st EXCEPT !.didCompact = TRUE]
         ELSE st
    [] ev.type = "result" ->
         LET a == IF ev.subtype = "success"
                  THEN [st EXCEPT !.text = ANSWER]
                  ELSE [st EXCEPT !.error = ev.subtype,
                                  !.text = FormatResultError(ev.subtype)]
         IN IF ev.usage
            THEN [a EXCEPT !.usage =
                   [set |-> TRUE,
                    didCompact |-> UsageState(st).didCompact,
                    lastCallCacheRead |-> UsageState(st).lastCallCacheRead]]
            ELSE a
    [] ev.type = "assistant" ->
         LET a == IF ev.error # "" THEN HandleAssistantError(st, ev.error)
                  ELSE st
         IN IF ev.cacheRead > 0
            THEN [a EXCEPT !.lastCallCacheRead = ev.cacheRead]
            ELSE a
    [] ev.type = "auth_status" ->
         IF ev.error # "" THEN [st EXCEPT !.error = "auth: " \o ev.error]
         ELSE st
    [] OTHER -> st

\* agent.ts:399-402 the finally block of runAgent
FinallyKeepsListener(st) == [st EXCEPT !.timer = FALSE]
RunAgentFinally(st) == [st EXCEPT !.timer = FALSE, !.subscribed = FALSE]

\* agent.ts:291-315 runAgent is entered, with or without a signal, the signal
\* already aborted or not
RunAgentEnter(hasSignal, aborted) ==
  /\ run.pc = "none"
  /\ aborted => hasSignal
  /\ run' = IF aborted
            THEN [run EXCEPT !.pc = "returned", !.hasSignal = TRUE,
                             !.ext = TRUE, !.text = CANCELLED_LINE,
                             !.error = "cancelled"]
            ELSE [run EXCEPT !.pc = "streaming", !.hasSignal = hasSignal,
                             !.subscribed = hasSignal,
                             !.listened = hasSignal,
                             !.timer = TRUE, !.armed = TRUE,
                             !.queried = TRUE]
  /\ UNCHANGED <<liveVars, split, authVars, decayVars>>

\* agent.ts:365-385 the query yields a message
RunAgentEvent(ev) ==
  /\ run.pc = "streaming"
  /\ Len(run.events) < MaxEvents
  /\ run' = [HandleMessage(run, ev) EXCEPT !.events = Append(@, ev)]
  /\ UNCHANGED <<liveVars, split, authVars, decayVars>>

\* agent.ts:365, 399-426 the query ends: finally, then the result
RunAgentReturns ==
  /\ run.pc = "streaming"
  /\ run' = [RunAgentFinally(run) EXCEPT !.pc = "returned"]
  /\ UNCHANGED <<liveVars, split, authVars, decayVars>>

\* agent.ts:298, 315, 386-402 the query throws: by itself, or after the
\* timer or the caller's signal tripped the runner's token
RunAgentThrows(cause) ==
  /\ run.pc = "streaming"
  /\ cause = "signal" => run.subscribed
  /\ cause = "timer" => run.timer
  /\ LET st == [run EXCEPT !.tripped = cause # "exception",
                           !.ext = cause = "signal"]
     IN run' = [RunAgentFinally(RunAgentCatch(st, "socket hang up"))
                  EXCEPT !.pc = "returned"]
  /\ UNCHANGED <<liveVars, split, authVars, decayVars>>

\* ------------------------------------------------------------ splitMessage

\* the texts: up to MaxTextLen characters of a letter, a space, a newline
\* and a tab; the windows 1..MaxWindow
MaxTextLen == 4
MaxWindow == 3
Chars == {"a", " ", "\n", "\t"}
Whitespace == {" ", "\n", "\t"}
Texts == UNION {[1..n -> Chars] : n \in 0..MaxTextLen}

\* String.prototype.lastIndexOf(ch, from), indices from 0, -1 if absent
LastIndexOf(s, ch, from) ==
  LET hits == {i \in 0..Min(from, Len(s) - 1) : s[i + 1] = ch}
  IN IF hits = {} THEN -1
     ELSE CHOOSE i \in hits : \A j \in hits : j <= i
\* String.prototype.slice(0, b) and slice(a) for 0 <= a, b
SliceTo(s, b) == SubSeq(s, 1, Min(b, Len(s)))
SliceFrom(s, a) == SubSeq(s, a + 1, Len(s))
\* String.prototype.trimStart()
RECURSIVE TrimStart(_)
TrimStart(s) ==
  IF s # <<>> /\ Head(s) \in Whitespace THEN TrimStart(Tail(s)) ELSE s

\* bot.ts:829-838 the split index of one iteration; `x < maxLen * 0.3` is
\* compared in tenths
SplitIndexPastWindow(remaining, maxLen) == maxLen + 1
SplitIndex(remaining, maxLen) ==
  LET nl == LastIndexOf(remaining, "\n", maxLen)
      sp == IF 10 * nl < 3 * maxLen
            THEN LastIndexOf(remaining, " ", maxLen)
            ELSE nl
  IN IF 10 * sp < 3 * maxLen THEN maxLen ELSE sp

\* the locals of splitMessage: pc "none" not called, "loop" at the head of
\* the while loop, "done" returned
NoSplit ==
  [pc |-> "none", text |-> <<>>, maxLen |-> 0, remaining |-> <<>>,
   chunks |-> <<>>]

\* bot.ts:817-821 splitMessage is called
SplitEnter(text, maxLen) ==
  /\ split.pc = "none"
  /\ split' = IF Len(text) <= maxLen
              THEN [pc |-> "done", text |-> text, maxLen |-> maxLen,
                    remaining |-> text, chunks |-> <<text>>]
              ELSE [pc |-> "loop", text |-> text, maxLen |-> maxLen,
                    remaining |-> text, chunks |-> <<>>]
  /\ UNCHANGED <<liveVars, run, authVars, decayVars>>

\* bot.ts:823-842 one pass through the while loop
SplitStep ==
  /\ split.pc = "loop"
  /\ LET rem == split.remaining
         idx == SplitIndex(rem, split.maxLen)
     IN split' =
          IF Len(rem) = 0 THEN [split EXCEPT !.pc = "done"]
          ELSE IF Len(rem) <= split.maxLen
          THEN [split EXCEPT !.pc = "done", !.chunks = Append(@, rem)]
          ELSE [split EXCEPT !.chunks = Append(@, SliceTo(rem, idx)),
                             !.remaining = TrimStart(SliceFrom(rem, idx))]
  /\ UNCHANGED <<liveVars, run, authVars, decayVars>>

\* ------------------------------------------------------- the auth middleware

\* the updates of one behaviour
MaxUpdates == 3
\* chats outside ALLOWED_CHAT_IDS; "" is an update without a chat
Outsiders == {"3", ""}
UpdateKinds == {"chatid", "voice"}
NoUpdate == [n |-> 0, chat |-> "", kind |-> ""]

\* bot.ts:252-259 the first middleware: whether next() is called
PassEveryChat(chatId) == TRUE
AuthMiddleware(chatId) == chatId # "" /\ chatId \in ALLOWED_CHAT_IDS

\* bot.ts:268-270 /chatid and bot.ts:315-328 /voice (text-to-speech
\* configured): the handlers behind the middleware
CommandHandler(c, kind) ==
  /\ sent' = sent \cup {c}
  /\ voiceEnabledChats' =
       IF kind # "voice" THEN voiceEnabledChats
       ELSE IF c \in voiceEnabledChats THEN voiceEnabledChats \ {c}
       ELSE voiceEnabledChats \cup {c}
  /\ UNCHANGED liveVars

\* the bot receives an update of chat c
Deliver(c, kind) ==
  /\ ~MicrotaskPending
  /\ lastUpdate.n < MaxUpdates
  /\ lastUpdate' = [n |-> lastUpdate.n + 1, chat |-> c, kind |-> kind]
  /\ IF AuthMiddleware(c)
     THEN CommandHandler(c, kind)
     ELSE UNCHANGED <<liveVars, voiceEnabledChats, sent>>
  /\ UNCHANGED <<run, split, decayVars>>

\* ------------------------------------------------------------------ memory

MAX_MEMORIES_PER_CHAT == 200
SEARCH_LIMIT == 3
\* salience in tenths: DEFAULT 1.0, boosted by 0.1 up to 5.0
DEFAULT_SALIENCE == 10
SALIENCE_BOOST == 1
SALIENCE_CAP == 50
\* the largest salience a row takes in one behaviour
MaxSalience == 11
\* the semantic facts extracted from one response
MaxFacts == 2

NowSec == now \div 1000

\* the rows of a chat are counted under <<salience, accessed_at>>
AccessTimes == {(k * TickMs) \div 1000 : k \in 0..MaxTicks}
MemClasses == (DEFAULT_SALIENCE..MaxSalience) \X AccessTimes
EmptyBag == [cl \in MemClasses |-> 0]

RECURSIVE SumOver(_, _)
SumOver(bag, cls) ==
  IF cls = {} THEN 0
  ELSE LET cl == CHOOSE x \in cls : TRUE
       IN bag[cl] + SumOver(bag, cls \ {cl})
\* db.ts:350-368 getMemoryStats(chatId).total
MemoryTotal(bag) == SumOver(bag, MemClasses)

\* ORDER BY salience ASC, accessed_at ASC
ClassLess(a, b) == a[1] < b[1] \/ (a[1] = b[1] /\ a[2] < b[2])

\* db.ts:251-264 insertMemory, k times: salience and accessed_at by default
InsertMemory(bag, k) ==
  [bag EXCEPT ![<<DEFAULT_SALIENCE, NowSec>>] = @ + k]

\* db.ts:303-312 touchMemory of one row counted under cl
TouchMemory(bag, cl) ==
  LET to == <<Min(cl[1] + SALIENCE_BOOST, SALIENCE_CAP), NowSec>>
      less == [bag EXCEPT ![cl] = @ - 1]
  IN [less EXCEPT ![to] = @ + 1]

\* DELETE ... WHERE id IN (SELECT id ... ORDER BY ... ASC | DESC LIMIT n)
RECURSIVE DeleteFirst(_, _, _)
DeleteFirst(bag, n, asc) ==
  IF n = 0 \/ \A x \in MemClasses : bag[x] = 0 THEN bag
  ELSE LET cl == CHOOSE x \in MemClasses :
                   /\ bag[x] > 0
                   /\ \A y \in MemClasses :
                        bag[y] > 0 => IF asc THEN ~ClassLess(y, x)
                                      ELSE ~ClassLess(x, y)
           d  == Min(bag[cl], n)
       IN DeleteFirst([bag EXCEPT ![cl] = @ - d], n - d, asc)

\* memory.ts:156-159 every row the search returned is touched
RECURSIVE TouchAll(_, _)
TouchAll(bag, hits) ==
  IF hits = <<>> THEN bag
  ELSE TouchAll(TouchMemory(bag, Head(hits)), Tail(hits))

\* memory.ts:246-261 pruneExcessMemories(chatId) on the table mem
PruneHighestFirst(mem, c) ==
  LET total == MemoryTotal(mem[c])
  IN IF total <= MAX_MEMORIES_PER_CHAT THEN mem
     ELSE [mem EXCEPT ![c] =
             DeleteFirst(@, total - MAX_MEMORIES_PER_CHAT, FALSE)]
PruneExcessMemories(mem, c) ==
  LET total == MemoryTotal(mem[c])
  IN IF total <= MAX_MEMORIES_PER_CHAT THEN mem
     ELSE [mem EXCEPT ![c] =
             DeleteFirst(@, total - MAX_MEMORIES_PER_CHAT, TRUE)]

\* memory.ts:186-209 saveConversationTurn, its effect on the memories: the
\* episodic row of a long message and the facts of the response are inserted
\* and the chat is pruned
IngestCount(ingest) == (IF ingest.episodic THEN 1 ELSE 0) + ingest.facts
\* memory.ts:192-208 the statements of saveConversationTurn in their order:
\* the two appends to the conversation log, the test of the user message for
\* an episodic row, extractSemanticFacts, pruneExcessMemories
SaveSteps ==
  <<"log user", "log assistant", "decide episodic", "decide facts", "prune">>
SaveConversationTurn(mem, c, ingest) ==
  PruneExcessMemories(
    [mem EXCEPT ![c] = InsertMemory(@, IngestCount(ingest))], c)

\* db.ts:266-290 searchMemories: each word of two letters or more gets a
\* star; FTS5 reads the barewords AND, OR and NOT as operators, and an
\* operator followed by a star is a syntax error, which the statement throws
FtsQuery(words) ==
  [i \in 1..Len(words) |-> <<words[i], "*">>]
FtsSyntaxError(q) ==
  \E i \in 1..Len(q) : q[i][1] \in {"AND", "OR", "NOT"}
SearchThrows(msg) == FtsSyntaxError(FtsQuery(MessageWords(msg)))

\* ------------------------------------------------------------- turn pipeline

UserMessages == {"hi", "cats AND dogs"}
PipelineMessages == {"Too Many Requests"}

GUIDANCE == "Context window likely exhausted."
GENERIC_FAILURE == "Something went wrong. Check the logs and try again."
CANCELLING == "Cancelling current request..."
NO_ACTIVE_REQUEST == "No active request to cancel."

\* bot.ts:742-756 the reply of the catch block of processMessage
CatchReply(msg) ==
  IF Includes(MessageWords(msg), <<"exited", "with", "code", "1">>)
  THEN GUIDANCE
  ELSE GENERIC_FAILURE

\* bot.ts:757-760 finally, and the end of the turn
EndTurn(c, t, path) ==
  /\ typingIntervals' = [typingIntervals EXCEPT ![c] = @ - 1]
  /\ activeAborts' = [activeAborts EXCEPT ![c] = FALSE]
  /\ turn' = [turn EXCEPT ![c] = IdleTurn]
  /\ turnLog' = [turnLog EXCEPT ![c].n = @ + 1,
                                ![c].last = [t EXCEPT !.pc = path]]

\* bot.ts:673-685 and agent.ts:291-316: processMessage up to the await of
\* runAgent.  queue.ts runs the turns of a chat one after the other, so a
\* turn starts when the chat has none in progress.  `hits` are the rows the
\* search returned (at most SEARCH_LIMIT), which buildMemoryContext touches.
StartTurn(c, skipLog, msg, hits) ==
  /\ turn[c].pc = "idle"
  /\ turnLog[c].n < MaxTurns
  /\ skipLog => hasConversation[c]
  /\ ~SearchThrows(msg)
  /\ Len(hits) <= SEARCH_LIMIT
  /\ \A cl \in MemClasses :
       Cardinality({i \in 1..Len(hits) : hits[i] = cl}) <= memories[c][cl]
  /\ \A i \in 1..Len(hits) : hits[i][1] + SALIENCE_BOOST <= MaxSalience
  /\ typingIntervals' = [typingIntervals EXCEPT ![c] = @ + 1]
  /\ memories' = [memories EXCEPT ![c] = TouchAll(@, hits)]
  /\ activeAborts' = [activeAborts EXCEPT ![c] = TRUE]
  /\ turn' = [turn EXCEPT ![c] =
       [IdleTurn EXCEPT !.pc = "agent", !.skipLog = skipLog,
                        !.sid = GetSession(sessions, c),
                        !.rsid = GetSession(sessions, c),
                        !.prior = turnLog[c].surfaced]]
  /\ turnLog' = [turnLog EXCEPT ![c].last = IdleTurn]
  /\ UNCHANGED <<now, startedAt, coreVars, hasConversation, sessions,
                 lastCancel, lastCommand, pureVars>>

\* bot.ts:674-677 the search of buildMemoryContext throws: processMessage
\* ends before its try statement is entered
StartTurnThrows(c, skipLog, msg) ==
  /\ turn[c].pc = "idle"
  /\ turnLog[c].n < MaxTurns
  /\ skipLog => hasConversation[c]
  /\ SearchThrows(msg)
  /\ typingIntervals' = [typingIntervals EXCEPT ![c] = @ + 1]
  /\ turnLog' = [turnLog EXCEPT ![c].n = @ + 1,
       ![c].last = [IdleTurn EXCEPT !.pc = "threw", !.skipLog = skipLog,
                                    !.caught = "fts5: syntax error"]]
  /\ UNCHANGED <<now, startedAt, coreVars, hasConversation, turn, activeAborts,
                 sessions, lastCancel, lastCommand, pureVars, memories>>

\* bot.ts:704-706 the turn is logged unless it is a /respin replay
LogsOnlySuccess(t) == ~t.skipLog /\ t.error = ""
LogsTurn(t) == ~t.skipLog
\* bot.ts:725 the ledger row is written when the run reported usage
WritesLedger(t) == t.usage

\* bot.ts:696-706 runAgent returned with the locals t: the session is saved,
\* the turn is logged and ingested, and the reply is being sent
EndAgent(c, t, ingest) ==
  LET r == [t EXCEPT !.text = ResultText(t)]
      k == IngestCount(ingest)
      saved == SaveConversationTurn(memories, c, ingest)
  IN /\ sessions' = IF r.rsid # NoSession
                    THEN SetSession(sessions, c, r.rsid)
                    ELSE sessions
     /\ turnLog' = [turnLog EXCEPT ![c].surfaced = r.rsid]
     /\ IF ~LogsTurn(r)
        THEN /\ turn' = [turn EXCEPT ![c] = [r EXCEPT !.pc = "sending"]]
             /\ UNCHANGED <<hasConversation, memories>>
        ELSE /\ hasConversation' = [hasConversation EXCEPT ![c] = TRUE]
             /\ memories' = saved
             /\ turn' = [turn EXCEPT ![c] =
                  [r EXCEPT !.pc = "sending", !.logged = TRUE,
                            !.steps = SaveSteps,
                            !.ingested = k,
                            !.pruned = MemoryTotal(memories[c]) + k
                                       - MemoryTotal(saved[c])]]
     /\ UNCHANGED <<now, startedAt, coreVars, activeAborts, typingIntervals,
                    lastCancel, lastCommand, pureVars>>

\* agent.ts:365-385 the stream of the query ends
SdkDone(c, ingest) ==
  /\ turn[c].pc = "agent"
  /\ EndAgent(c, turn[c], ingest)

\* agent.ts:386-398 the query throws
SdkThrow(c, msg, ingest) ==
  /\ turn[c].pc = "agent"
  /\ EndAgent(c, RunAgentCatch(turn[c], msg), ingest)

\* bot.ts:709-741 the reply is sent; with usage figures the ledger row is
\* written and a context warning may be sent; then finally
SendReturns(c, warning) ==
  /\ turn[c].pc = "sending"
  /\ warning => WritesLedger(turn[c])
  /\ EndTurn(c, [turn[c] EXCEPT
                   !.replies = IF warning THEN <<"text", "warning">>
                               ELSE <<"text">>,
                   !.ledger = WritesLedger(turn[c])],
             "returned")
  /\ UNCHANGED <<now, startedAt, coreVars, hasConversation, sessions,
                 lastCancel, lastCommand, pureVars, memories>>

\* bot.ts:722 sendLongMessage throws: the catch block sends its reply
SendThrows(c, msg) ==
  /\ turn[c].pc = "sending"
  /\ turn' = [turn EXCEPT ![c].pc = "failing", ![c].caught = msg]
  /\ UNCHANGED <<now, startedAt, coreVars, hasConversation, activeAborts,
                 typingIntervals, sessions, turnLog, lastCancel, lastCommand, pureVars,
                 memories>>

\* bot.ts:742-760 the reply of the catch block is sent; then finally
CatchReplyReturns(c) ==
  /\ turn[c].pc = "failing"
  /\ EndTurn(c, [turn[c] EXCEPT !.replies = <<CatchReply(turn[c].caught)>>],
             "caught")
  /\ UNCHANGED <<now, startedAt, coreVars, hasConversation, sessions,
                 lastCancel, lastCommand, pureVars, memories>>

\* bot.ts:303-313 /cancel: the abort of the handle runs the listener runAgent
\* registered (agent.ts:297, :311) while the query is iterated
Cancel(c) ==
  /\ IF activeAborts[c]
     THEN /\ turn' = [turn EXCEPT
               ![c].ext = TRUE,
               ![c].tripped = IF turn[c].pc = "agent" THEN TRUE ELSE @,
               ![c].by = IF turn[c].pc = "agent" /\ ~turn[c].tripped
                         THEN "caller" ELSE @]
          /\ activeAborts' = [activeAborts EXCEPT ![c] = FALSE]
          /\ lastCancel' = [lastCancel EXCEPT ![c] = CANCELLING]
     ELSE /\ lastCancel' = [lastCancel EXCEPT ![c] = NO_ACTIVE_REQUEST]
          /\ UNCHANGED <<turn, activeAborts>>
  /\ UNCHANGED <<now, startedAt, coreVars, hasConversation, typingIntervals,
                 sessions, turnLog, lastCommand, pureVars, memories>>

\* bot.ts:273-278 /newchat
NewChat(c) ==
  /\ sessions' = ClearSession(sessions, c)
  /\ turnLog' = [turnLog EXCEPT ![c].surfaced = NoSession]
  /\ UNCHANGED <<now, startedAt, coreVars, hasConversation, turn, activeAborts,
                 typingIntervals, lastCancel, lastCommand, pureVars, memories>>

\* ------------------------------------------------- turns as tasks of the queue

\* queue.ts:68-70 and bot.ts:673-697: the await of acquireConcurrency resumes
\* for task r of chat r[1] and fn() runs processMessage up to the await of
\* runAgent: typing starts, the session is read, the handle is installed
TurnResume(r) ==
  LET c == r[1]
  IN /\ c \in ALLOWED_CHAT_IDS
     /\ T(r).phase = "granted"
     /\ tasks' = [tasks EXCEPT ![c][r[2]].phase = "running",
                               ![c][r[2]].ran = TRUE]
     /\ typingIntervals' = [typingIntervals EXCEPT ![c] = @ + 1]
     /\ activeAborts' = [activeAborts EXCEPT ![c] = TRUE]
     /\ abortOwner' = [abortOwner EXCEPT ![c] = r[2]]
     /\ turn' = [turn EXCEPT ![c] =
          [IdleTurn EXCEPT !.pc = "agent",
                           !.sid = GetSession(sessions, c),
                           !.rsid = GetSession(sessions, c),
                           !.prior = turnLog[c].surfaced]]
     /\ turnLog' = [turnLog EXCEPT ![c].last = IdleTurn]
     /\ UNCHANGED <<now, startedAt, rateLimitWindows, chatQueues,
                    activeConcurrent, concurrencyWaiters, hasConversation,
                    histVars, schedVars, lockVars, sessions, lastCancel,
                    lastCommand, memories, run, split, authVars, decayVars,
                    stopped>>

\* bot.ts:757-760 and queue.ts:69-74: processMessage of task r ends by `end`
\* (an "exception" is a throw of the reply in its catch block); its finally
\* stops the typing and deletes the chat's entry of activeAborts, then the
\* finally of the queue releases the slot and next settles
TurnSettle(r, end) ==
  LET c  == r[1]
      ts == [tasks EXCEPT ![c][r[2]].phase = "settled",
                          ![c][r[2]].next = Outcome(end)]
      g  == Finally(end, ts)
  IN /\ c \in ALLOWED_CHAT_IDS
     /\ ~MicrotaskPending
     /\ T(r).phase = "running"
     /\ EndTurn(c, turn[c], IF end = "exception" THEN "threw" ELSE "returned")
     /\ tasks' = g.t
     /\ activeConcurrent' = g.a
     /\ concurrencyWaiters' = g.w
     /\ hasConversation' =
          IF LogsConversation(T(r).kind, end)
          THEN [hasConversation EXCEPT ![c] = TRUE]
          ELSE hasConversation
     /\ UNCHANGED <<now, startedAt, rateLimitWindows, chatQueues, histVars,
                    schedVars, lockVars, sessions, lastCancel, lastCommand,
                    memories, pureVars>>

\* ------------------------------------------------------------ initial state

\* the queue module freshly loaded; the table holds two active tasks left by
\* an earlier run, each either missed an hour ago or due within a minute
InitQueue ==
  /\ rateLimitWindows = [k \in Keys |-> <<>>]
  /\ chatQueues = [k \in Keys |-> 0]
  /\ activeConcurrent = 0
  /\ concurrencyWaiters = <<>>
  /\ tasks = [k \in Keys |-> <<>>]
  /\ admitted = [k \in Keys |-> <<>>]
  /\ rejectedPrior = [c \in ALLOWED_CHAT_IDS |-> -1]

InitSched ==
  /\ \E n1, n2 \in {-3600, 60} :
       scheduled_tasks =
         [id \in ScheduledIds |->
            [chat_id |-> IF id = "t1" THEN "1" ELSE "-2",
             schedule |-> IF id = "t1" THEN "* * * * *" ELSE "*/2 * * * *",
             next_run |-> IF id = "t1" THEN n1 ELSE n2,
             last_run |-> -1,
             last_result |-> NoResult,
             status |-> "active"]]
  /\ sweeps = [s \in SweepIds |-> IdleSweep]
  /\ pollInterval = -1
  /\ execCount = [id \in ScheduledIds |-> 0]

\* no instance started yet; the PID file is absent or left by a dead instance
InitLock ==
  /\ pidFile \in {NoFile, FileOf(DeadPid)}
  /\ proc = [p \in Pids |-> [pc |-> "idle", existing |-> DeadPid]]

\* no call checked on its own has been made
InitPure ==
  /\ run = NoRun
  /\ split = NoSplit
  /\ voiceEnabledChats = {}
  /\ sent = {}
  /\ lastUpdate = NoUpdate
  /\ memRow = NoRow
  /\ hour = 0
  /\ stopped = FALSE
  /\ abortOwner = [c \in ALLOWED_CHAT_IDS |-> 0]

NoCommand == [n |-> 0, chat |-> "", kind |-> "", id |-> ""]
InitCommands == lastCommand = NoCommand

\* no turn in progress and no session bound
InitTurn ==
  /\ turn = [c \in ALLOWED_CHAT_IDS |-> IdleTurn]
  /\ activeAborts = [c \in ALLOWED_CHAT_IDS |-> FALSE]
  /\ typingIntervals = [c \in ALLOWED_CHAT_IDS |-> 0]
  /\ sessions = {}
  /\ turnLog = [c \in ALLOWED_CHAT_IDS |->
                 [n |-> 0, surfaced |-> NoSession, last |-> IdleTurn]]
  /\ lastCancel = [c \in ALLOWED_CHAT_IDS |-> ""]

\* the memories left by earlier runs: none, or a chat at or just under the
\* cap, all rows untouched or some of them touched once
InitBags ==
  {EmptyBag,
   [EmptyBag EXCEPT ![<<DEFAULT_SALIENCE, 0>>] = MAX_MEMORIES_PER_CHAT],
   [EmptyBag EXCEPT ![<<DEFAULT_SALIENCE, 0>>] = MAX_MEMORIES_PER_CHAT - 1],
   [EmptyBag EXCEPT ![<<DEFAULT_SALIENCE, 0>>] = 1,
                    ![<<DEFAULT_SALIENCE + SALIENCE_BOOST, 0>>] =
                       MAX_MEMORIES_PER_CHAT - 1]}
InitMemories == memories \in [ALLOWED_CHAT_IDS -> InitBags]
NoMemories == memories = [c \in ALLOWED_CHAT_IDS |-> EmptyBag]

Init ==
  /\ now \in StartOffsets
  /\ startedAt = now
  /\ \E b \in BOOLEAN : hasConversation = [c \in ALLOWED_CHAT_IDS |-> b]
  /\ InitQueue
  /\ InitSched
  /\ InitLock
  /\ InitTurn
  /\ InitCommands
  /\ InitMemories
  /\ InitPure

\* ------------------------------------------------------------ specification

\* the continuations of awaits: they run before any further macrotask
Microtasks ==
  \/ \E r \in LiveRefs : StartTask(r)
  \/ \E r \in LiveRefs : Resume(r)
  \/ \E r \in LiveRefs : ChainSettle(r)
  \/ \E s \in SweepIds : ExecutorResume(s, ShortLen)

\* the queue under interactive turns and the startup sweep of the scheduler,
\* the clock standing still
NextQueue ==
  \/ Microtasks
  \/ \E r \in LiveRefs, end \in EndKinds : BodySettle(r, end)
  \/ \E c \in ALLOWED_CHAT_IDS : MessageHandler(c, MaxTasks)
  \/ \E c \in ALLOWED_CHAT_IDS : Respin(c, MaxTasks)
  \/ InitScheduler
  \/ \E s \in SweepIds : SendDone(s, ShortLen)

InitOneProcess ==
  /\ Init
  /\ pidFile = NoFile
  /\ NoMemories
InitQueueSpec ==
  /\ InitOneProcess
  /\ now = 0
SpecQueue == InitQueueSpec /\ [][NextQueue]_vars

\* the same under the scheduling the runtime guarantees: the event loop runs
\* every queued continuation, every agent run ends (at the latest by the
\* runner's timeout) and every send returns
SpecQueueFair ==
  /\ SpecQueue
  /\ WF_vars(Microtasks)
  /\ WF_vars(\E r \in LiveRefs, end \in EndKinds : BodySettle(r, end))
  /\ WF_vars(\E s \in SweepIds : SendDone(s, ShortLen))

\* the same with one task due at startup, so that the startup sweep makes
\* one executor invocation
InitOneDueSpec ==
  /\ InitQueueSpec
  /\ scheduled_tasks["t1"].next_run = -3600
  /\ scheduled_tasks["t2"].next_run = 60
SpecOneDueFair ==
  /\ InitOneDueSpec /\ [][NextQueue]_vars
  /\ WF_vars(Microtasks)
  /\ WF_vars(\E r \in LiveRefs, end \in EndKinds : BodySettle(r, end))
  /\ WF_vars(\E s \in SweepIds : SendDone(s, ShortLen))

\* the scheduler loop over time, with no interactive turn
NextSched ==
  \/ Microtasks
  \/ \E r \in LiveRefs, end \in EndKinds : BodySettle(r, end)
  \/ Tick
  \/ InitScheduler
  \/ PollFire
  \/ \E s \in SweepIds : SendDone(s, ShortLen)

InitSchedSpec ==
  /\ InitOneProcess
  /\ \A c \in ALLOWED_CHAT_IDS : ~hasConversation[c]
SpecSched == InitSchedSpec /\ [][NextSched]_vars

\* the rate limiter under the handlers of one chat over time; the agent runs
\* outlast the behaviour (no body settles)
RateChat == "1"
NextRate ==
  \/ \E r \in LiveRefs : StartTask(r)
  \/ \E r \in LiveRefs : Resume(r)
  \/ MessageHandler(RateChat, MaxAdmit)
  \/ Respin(RateChat, MaxAdmit)
  \/ ProbeCommand(RateChat)
  \/ Tick
InitRateSpec ==
  /\ InitOneProcess
  /\ now = 0
  /\ \A id \in ScheduledIds : scheduled_tasks[id].next_run = 60
SpecRate == InitRateSpec /\ [][NextRate]_vars

\* the startups, shutdowns and kills of the service processes
NextLock ==
  \/ \E p \in Pids : Start(p)
  \/ \E p \in Pids : CreateExclusive(p)
  \/ \E p \in Pids : ReadPid(p)
  \/ \E p \in Pids : Probe(p)
  \/ \E p \in Pids : Overwrite(p)
  \/ \E p \in Pids : Shutdown(p)
  \/ \E p \in Pids : ReleaseLockRead(p)
  \/ \E p \in Pids : ReleaseLockUnlink(p)
  \/ \E p \in Pids : Restart(p)
  \/ \E p \in Pids : Kill(p)
InitLockSpec ==
  /\ Init
  /\ NoMemories
  /\ now = 0
  /\ \A c \in ALLOWED_CHAT_IDS : ~hasConversation[c]
  /\ \A id \in ScheduledIds : scheduled_tasks[id].next_run = 60
SpecLock == InitLockSpec /\ [][NextLock]_vars

\* the turns of one chat under every stream of the agent: short messages that
\* leave no memory, the clock standing still
AgentChat == "1"
NoIngest == [episodic |-> FALSE, facts |-> 0]
NextAgent ==
  \/ \E skipLog \in BOOLEAN : StartTurn(AgentChat, skipLog, "hi", <<>>)
  \/ SdkInit(AgentChat, "s1")
  \/ \E e \in AssistantErrors : SdkAssistantError(AgentChat, e)
  \/ \E subtype \in ResultSubtypes, withUsage \in BOOLEAN :
       SdkResult(AgentChat, subtype, withUsage)
  \/ TimerFires(AgentChat)
  \/ Cancel(AgentChat)
  \/ SdkDone(AgentChat, NoIngest)
  \/ \E msg \in ThrownMessages : SdkThrow(AgentChat, msg, NoIngest)
  \/ \E warning \in BOOLEAN : SendReturns(AgentChat, warning)
  \/ \E msg \in PipelineMessages : SendThrows(AgentChat, msg)
  \/ CatchReplyReturns(AgentChat)
InitAgentSpec ==
  /\ InitOneProcess
  /\ now = 0
  /\ \A id \in ScheduledIds : scheduled_tasks[id].next_run = 60
SpecAgent == InitAgentSpec /\ [][NextAgent]_vars

\* the scheduler's startup sweep and the task commands of the chats over time
NextTasks ==
  \/ Microtasks
  \/ \E r \in LiveRefs, end \in EndKinds : BodySettle(r, end)
  \/ Tick
  \/ InitScheduler
  \/ \E s \in SweepIds : SendDone(s, ShortLen)
  \/ \E c \in ALLOWED_CHAT_IDS, kind \in CommandKinds, id \in ScheduledIds :
       TaskCommand(c, kind, id)
InitTasksSpec ==
  /\ InitOneProcess
  /\ now = 0
  /\ \A c \in ALLOWED_CHAT_IDS : ~hasConversation[c]
SpecTasks == InitTasksSpec /\ [][NextTasks]_vars

\* the scheduler loop over time and the shutdown of the service
NextStop ==
  \/ Microtasks
  \/ \E r \in LiveRefs, end \in EndKinds : BodySettle(r, end)
  \/ Tick
  \/ InitScheduler
  \/ PollFire
  \/ \E s \in SweepIds : SendDone(s, ShortLen)
  \/ StopScheduler
SpecStop == InitTasksSpec /\ [][NextStop]_vars

\* the turns of the chats as tasks of the queue, with /cancel
NextHandles ==
  \/ \E r \in LiveRefs : StartTask(r)
  \/ \E r \in LiveRefs : TurnResume(r)
  \/ \E r \in LiveRefs : ChainSettle(r)
  \/ \E r \in LiveRefs, end \in EndKinds : TurnSettle(r, end)
  \/ \E c \in ALLOWED_CHAT_IDS : MessageHandler(c, MaxTasks)
  \/ \E c \in ALLOWED_CHAT_IDS : Cancel(c)
SpecHandles == InitQueueSpec /\ [][NextHandles]_vars

\* the startup sweep of the scheduler with executors that return or throw
\* texts of every length
NextResults ==
  \/ \E r \in LiveRefs : StartTask(r)
  \/ \E r \in LiveRefs : Resume(r)
  \/ \E r \in LiveRefs : ChainSettle(r)
  \/ \E s \in SweepIds, len \in ResultLengths : ExecutorResume(s, len)
  \/ \E s \in SweepIds : ExecutorResumeUpdateThrows(s)
  \/ \E r \in LiveRefs, end \in EndKinds : BodySettle(r, end)
  \/ Tick
  \/ InitScheduler
  \/ \E s \in SweepIds, len \in ResultLengths : SendDone(s, len)
SpecResults == InitSchedSpec /\ [][NextResults]_vars

\* the turns of the two chats and their /cancel commands, a turn ending by
\* every path; the clock stands still
NextCancel ==
  \/ \E c \in ALLOWED_CHAT_IDS, msg \in UserMessages :
       StartTurn(c, FALSE, msg, <<>>)
  \/ \E c \in ALLOWED_CHAT_IDS, msg \in UserMessages :
       StartTurnThrows(c, FALSE, msg)
  \/ \E c \in ALLOWED_CHAT_IDS : SdkDone(c, NoIngest)
  \/ \E c \in ALLOWED_CHAT_IDS : SdkThrow(c, "socket hang up", NoIngest)
  \/ \E c \in ALLOWED_CHAT_IDS : Cancel(c)
  \/ \E c \in ALLOWED_CHAT_IDS : SendReturns(c, FALSE)
  \/ \E c \in ALLOWED_CHAT_IDS, msg \in PipelineMessages : SendThrows(c, msg)
  \/ \E c \in ALLOWED_CHAT_IDS : CatchReplyReturns(c)
InitChatsSpec ==
  /\ InitAgentSpec
  /\ \A c \in ALLOWED_CHAT_IDS : ~hasConversation[c]
SpecCancel == InitChatsSpec /\ [][NextCancel]_vars

\* the turns of the two chats, the session ids they surface and /newchat
NextSessions ==
  \/ \E c \in ALLOWED_CHAT_IDS : StartTurn(c, FALSE, "hi", <<>>)
  \/ \E c \in ALLOWED_CHAT_IDS, id \in SessionIds : SdkInit(c, id)
  \/ \E c \in ALLOWED_CHAT_IDS : SdkDone(c, NoIngest)
  \/ \E c \in ALLOWED_CHAT_IDS : NewChat(c)
  \/ \E c \in ALLOWED_CHAT_IDS : SendReturns(c, FALSE)
SpecSessions == InitChatsSpec /\ [][NextSessions]_vars

\* the turns of one chat with messages and replies that leave memories, both
\* chats being at or just under the cap, over time
\* the search finds nothing, or one of the chat's oldest untouched rows
HitSeqs == {<<>>, << <<DEFAULT_SALIENCE, 0>> >>}
Ingests == [episodic : BOOLEAN, facts : 0..MaxFacts]
MemoryChat == "1"
NextMemory ==
  \/ \E hits \in HitSeqs : StartTurn(MemoryChat, FALSE, "hi", hits)
  \/ \E ingest \in Ingests : SdkDone(MemoryChat, ingest)
  \/ SendReturns(MemoryChat, FALSE)
  \/ Tick
InitMemorySpec ==
  /\ Init
  /\ pidFile = NoFile
  /\ now = 0
  /\ \A id \in ScheduledIds : scheduled_tasks[id].next_run = 60
  /\ \A c \in ALLOWED_CHAT_IDS :
       ~hasConversation[c] /\ memories[c] # EmptyBag
SpecMemory == InitMemorySpec /\ [][NextMemory]_vars

\* the gate under the turns of both chats and the executions of two sweeps:
\* enough tasks for two of them to wait at the gate at the same time
MaxGateTasks == 4
\* the messages of this specification arrive at the time of the first poll
GateMessage(c) == now = SCHEDULER_POLL_MS /\ MessageHandler(c, MaxGateTasks)
NextGate ==
  \/ Microtasks
  \/ \E r \in LiveRefs : BodySettle(r, "success")
  \/ \E c \in ALLOWED_CHAT_IDS : GateMessage(c)
  \/ Tick
  \/ InitScheduler
  \/ PollFire
  \/ \E s \in SweepIds : SendDone(s, ShortLen)
InitGateSpec ==
  /\ InitOneProcess
  /\ now = 0
  /\ \A c \in ALLOWED_CHAT_IDS : ~hasConversation[c]
  /\ scheduled_tasks["t1"].next_run = 60
  /\ scheduled_tasks["t2"].next_run = -3600
SpecGate == InitGateSpec /\ [][NextGate]_vars

\* one runAgent call under every stream of messages and every ending
NextRun ==
  \/ \E hasSignal \in BOOLEAN, aborted \in BOOLEAN :
       RunAgentEnter(hasSignal, aborted)
  \/ \E ev \in SdkEvents : RunAgentEvent(ev)
  \/ RunAgentReturns
  \/ \E cause \in {"exception", "timer", "signal"} : RunAgentThrows(cause)
SpecRun == InitAgentSpec /\ [][NextRun]_vars

\* splitMessage on every text and window
NextSplit ==
  \/ \E text \in Texts, maxLen \in 1..MaxWindow : SplitEnter(text, maxLen)
  \/ SplitStep
SpecSplit == InitAgentSpec /\ [][NextSplit]_vars

\* the updates of allowed and other chats, between the text messages of the
\* allowed chats
NextAuth ==
  \/ \E r \in LiveRefs : StartTask(r)
  \/ \E r \in LiveRefs : Resume(r)
  \/ \E c \in ALLOWED_CHAT_IDS : MessageHandler(c, MaxTasks)
  \/ \E c \in ALLOWED_CHAT_IDS \cup Outsiders, kind \in UpdateKinds :
       Deliver(c, kind)
SpecAuth == InitRateSpec /\ [][NextAuth]_vars

\* the life of one memory row, inserted at the start, under touches, sweeps
\* and prunes
InsertAtStart == hour = 0 /\ InsertRow
NextDecay ==
  \/ InsertAtStart
  \/ \E boost \in Boosts : TouchRow(boost)
  \/ DecayAllMemories
  \/ PruneRow
  \/ AdvanceHour
SpecDecay == InitAgentSpec /\ [][NextDecay]_vars

\* ------------------------------------------------------------------ claims

Holders == {r \in LiveRefs : T(r).phase \in {"granted", "running"}}
Running == {r \in LiveRefs : T(r).phase = "running"}
Waiting == {r \in LiveRefs : T(r).phase = "waiting"}

\* C1: per key, a task leaves the wait for its predecessor (and so its body
\* begins) only after the next-promise of every task enqueued earlier under
\* the key has settled; no two bodies of one key execute at the same time.
C1_ChatSerial ==
  \A k \in Keys : \A i, j \in 1..Len(tasks[k]) :
    i < j =>
      /\ tasks[k][j].phase # "chained" => tasks[k][i].next # "pending"
      /\ ~(tasks[k][i].phase = "running" /\ tasks[k][j].phase = "running")

\* C1 witness: the second task of a chat runs after the first has settled
C1_Witness ==
  \E c \in ALLOWED_CHAT_IDS :
    /\ Len(tasks[c]) >= 2
    /\ tasks[c][1].next # "pending"
    /\ tasks[c][2].phase = "running"

\* C2: at most MAX_CONCURRENT bodies execute at once, interactive and
\* scheduled together.
C2_AtMostTwoExecuting == Cardinality(Running) <= MAX_CONCURRENT

\* C2 witness: two bodies execute, one of them scheduled and one interactive,
\* and a third task waits at the gate
C2_Witness ==
  /\ Cardinality(Running) = MAX_CONCURRENT
  /\ \E r \in Running : T(r).kind = "sched"
  /\ \E r \in Running : T(r).kind = "turn"
  /\ Waiting # {}

\* C3 (as claimed): between two writes of a task's next_run the executor is
\* invoked for it at most once.
C3_OneInvocationPerOccurrence ==
  \A id \in ScheduledIds : execCount[id] <= 1

\* the admissions of key k in the 60 000 ms ending with its i-th admission
AdmissionsInWindowEndingAt(k, i) ==
  Cardinality({j \in 1..i : admitted[k][i] - admitted[k][j] < WINDOW_MS})

\* C4 (as claimed): in every interval of 60 000 ms at most
\* MAX_MESSAGES_PER_MINUTE turns are admitted into the queue of a chat.
C4_AtMostTenPerWindow ==
  \A c \in ALLOWED_CHAT_IDS : \A i \in 1..Len(admitted[c]) :
    AdmissionsInWindowEndingAt(c, i) <= MAX_MESSAGES_PER_MINUTE

\* what a message handler of chat c decides in the current state
WouldReject(c) == IsRateLimited(Recent(rateLimitWindows[c], now))

\* C5: a handler rejects exactly when at least 10 admissions of the chat were
\* recorded less than 60 000 ms earlier; the window holds exactly those
\* admissions (rejected attempts and probes add nothing); every rejection
\* made so far saw at least 10 of them; and once the tenth-latest admission
\* is 60 000 ms old the next attempt is accepted.
C5_RejectsExactlyWhenWindowFull ==
  \A c \in ALLOWED_CHAT_IDS :
    /\ WouldReject(c) <=> AdmittedWithin(c, now) >= MAX_MESSAGES_PER_MINUTE
    /\ Recent(rateLimitWindows[c], now)
         = SelectSeq(admitted[c], LAMBDA x : now - x < WINDOW_MS)
    /\ rejectedPrior[c] # -1 => rejectedPrior[c] >= MAX_MESSAGES_PER_MINUTE
    /\ LET n == Len(admitted[c])
       IN (/\ n >= MAX_MESSAGES_PER_MINUTE
           /\ now - admitted[c][n - MAX_MESSAGES_PER_MINUTE + 1] >= WINDOW_MS)
          => ~WouldReject(c)

\* C5 witness: with no /respin possible, ten admissions, a rejected attempt,
\* and an eleventh admission 60 000 ms or more after the first
C5_Witness ==
  /\ ~hasConversation[RateChat]
  /\ rejectedPrior[RateChat] >= MAX_MESSAGES_PER_MINUTE
  /\ Len(admitted[RateChat]) = MAX_MESSAGES_PER_MINUTE + 1
  /\ admitted[RateChat][MAX_MESSAGES_PER_MINUTE + 1]
       - admitted[RateChat][1] >= WINDOW_MS

\* C6 (as claimed): at most one live process is past acquireLock.
C6_AtMostOneRunning ==
  Cardinality({p \in Pids : proc[p].pc = "running"}) <= 1

\* C7: a task whose body threw holds no slot afterwards (the counter equals
\* the number of slot holders whenever a task has been rejected), its
\* rejection is seen by its own caller only (every settled task ran its own
\* body, and is rejected only if that body threw), and again and again every
\* task enqueued behind a task that threw has run (ran is never withdrawn, so
\* each such successor eventually runs).
C7_ThrowReleasesSlotAndSuccessorRuns ==
  /\ [](\A r \in LiveRefs :
          /\ T(r).next # "pending" => T(r).ran
          /\ T(r).next = "rejected" =>
               /\ r \notin Holders
               /\ activeConcurrent = Cardinality(Holders))
  /\ []<>(\A k \in Keys : \A i \in 1..Len(tasks[k]) :
            (i < Len(tasks[k]) /\ tasks[k][i].next = "rejected")
              => tasks[k][i + 1].ran)

\* C7 witness: the successor of a task that threw is running
C7_Witness ==
  \E c \in ALLOWED_CHAT_IDS :
    /\ Len(tasks[c]) >= 2
    /\ tasks[c][1].next = "rejected"
    /\ tasks[c][2].phase = "running"

\* C8: activeConcurrent is the number of bodies executing plus the number of
\* tasks granted a slot that have not resumed yet, the waiter list holds
\* exactly the tasks blocked at the gate; so with no task executing or
\* waiting the counter is 0 and the list is empty.
C8_SlotsAccounted ==
  /\ activeConcurrent = Cardinality(Holders)
  /\ {concurrencyWaiters[i] : i \in 1..Len(concurrencyWaiters)} = Waiting
  /\ Len(concurrencyWaiters) = Cardinality(Waiting)
  /\ (Holders = {} /\ Waiting = {}) =>
       (activeConcurrent = 0 /\ concurrencyWaiters = <<>>)

\* C8 witness: a body has just ended by an exception and its slot went to
\* the waiter, which has not resumed yet, while another body executes
C8_Witness ==
  /\ \E r \in LiveRefs : T(r).phase = "settled" /\ T(r).next = "rejected"
  /\ \E r \in LiveRefs : T(r).phase = "granted"
  /\ Cardinality(Running) = MAX_CONCURRENT - 1
  /\ activeConcurrent = MAX_CONCURRENT
  /\ concurrencyWaiters = <<>>

\* C9: a scheduled execution is queued under the task key of its chat and an
\* interactive turn under the chat id, never the other way round; no task is
\* chained on a task of the other kind; an interactive turn that still waits
\* for a predecessor waits for an interactive turn of its chat (or is about
\* to start); and the bodies of both kinds together stay within the cap.
C9_ScheduledQueueIndependent ==
  /\ \A r \in LiveRefs :
       /\ T(r).kind = "sched" <=> r[1] \notin ALLOWED_CHAT_IDS
       /\ T(r).prev # 0 => tasks[r[1]][T(r).prev].kind = T(r).kind
       /\ (T(r).kind = "turn" /\ T(r).phase = "chained") =>
            \/ PrevState(r) # "pending"
            \/ /\ T(r).prev # 0
               /\ tasks[r[1]][T(r).prev].kind = "turn"
               /\ tasks[r[1]][T(r).prev].phase # "done"
  /\ Cardinality(Running) <= MAX_CONCURRENT

\* C9 witness: the scheduled execution of a chat and an interactive turn of
\* the same chat execute at the same time
C9_Witness ==
  \E c \in ALLOWED_CHAT_IDS :
    /\ \E r \in Running : r[1] = TaskKey(c) /\ T(r).kind = "sched"
    /\ \E r \in Running : r[1] = c /\ T(r).kind = "turn"

\* C10: a task that has been run has next_run later than the second its last
\* post-run update was made in (so later than the instant the executor
\* finished), it is not due in that second, and next_run is the first instant
\* of its schedule after that update, whatever next_run it had before.
C10_NextRunAfterCompletion ==
  \A id \in ScheduledIds :
    LET row == scheduled_tasks[id]
        p   == CronPeriodMs(row.schedule) \div 1000
    IN row.last_run # -1 =>
         /\ row.next_run > row.last_run
         /\ row.next_run % p = 0
         /\ row.next_run - p <= row.last_run
         /\ row.last_run = now \div 1000 =>
              \A i \in 1..Len(GetDueTasks) : GetDueTasks[i] # id

\* C10 witness: both tasks have been run and recorded, one run ending in a
\* result and one in a failure, and neither is due
C10_Witness ==
  /\ \E id \in ScheduledIds : scheduled_tasks[id].last_result.head = "ok"
  /\ \E id \in ScheduledIds : scheduled_tasks[id].last_result.head = "ERROR: "
  /\ \A id \in ScheduledIds : scheduled_tasks[id].next_run > now \div 1000


\* C11: when the query throws after the runner's token was tripped, the error
\* is "timeout" if the timer tripped the token and "cancelled" if the caller's
\* cancel tripped it, whatever the interleaving of the two; when the token was
\* not tripped, the error is the thrown message and the text the generic
\* failure line.
C11_ErrorNamesWhoTripped ==
  \A c \in ALLOWED_CHAT_IDS :
    LET t == turnLog[c].last
    IN t.thrown # "" =>
         /\ t.by = "timer" => t.error = "timeout"
         /\ t.by = "caller" => t.error = "cancelled"
         /\ t.by = "none" => t.error = t.thrown /\ t.text = INTERNAL_ERROR_LINE


\* C12: /deltask, /pausetask and /resumetask issued from chat c change only
\* scheduled tasks whose chat_id is c; a task of another chat is left
\* unchanged by them.
C12_CommandsScopedToChat ==
  [][lastCommand'.n # lastCommand.n =>
       \A id \in ScheduledIds :
         scheduled_tasks'[id] # scheduled_tasks[id] =>
           scheduled_tasks[id].chat_id = lastCommand'.chat]_vars

C19_PauseResume ==
  [][lastCommand'.n # lastCommand.n =>
       LET id     == lastCommand'.id
           before == scheduled_tasks[id]
           after  == scheduled_tasks'[id]
       IN /\ lastCommand'.kind = "resumetask" /\ before.status = "paused" =>
               /\ after = [before EXCEPT
                             !.status = "active",
                             !.next_run = CronNext(before.schedule, now) \div 1000]
               /\ after.next_run * 1000 > now
               /\ before.next_run <= now \div 1000 =>
                    after.next_run > now \div 1000
          /\ lastCommand'.kind = "pausetask" /\ before.status = "active" =>
               after = [before EXCEPT !.status = "paused"]
          /\ lastCommand'.kind = "pausetask" /\ before.status = "paused" =>
               after = before
          /\ lastCommand'.kind = "resumetask" /\ before.status = "active" =>
               after = before]_vars

\* C19 witness: a task paused and then resumed after its run was missed is
\* active and not due
C19_Witness ==
  /\ lastCommand.kind = "resumetask"
  /\ lastCommand.n >= 2
  /\ scheduled_tasks[lastCommand.id].status = "active"
  /\ scheduled_tasks[lastCommand.id].last_run = -1
  /\ now >= 60000
  /\ scheduled_tasks[lastCommand.id].next_run * 1000 > now

\* C13: after any post-run update of a scheduled task, on the success path
\* and on the failure path alike, the stored last_result has at most 10 000
\* characters.
C13_LastResultBounded ==
  \A id \in ScheduledIds : scheduled_tasks[id].last_result.len <= TRUNCATE_MAX

TerminalErrors ==
  {"error_max_turns", "error_max_budget_usd", "error_during_execution",
   "authentication_failed", "billing_error"}

C15_ExitCodeGetsGuidance ==
  \A c \in ALLOWED_CHAT_IDS :
    LET t == turnLog[c].last
    IN /\ t.pc \in {"returned", "caught"}
       /\ Includes(MessageWords(t.thrown), <<"exited", "with", "code", "1">>)
       => t.replies = <<GUIDANCE>>

\* C16: a handle is installed only while a turn of the chat is in progress
\* and is tripped only by a /cancel of that chat; once a turn has ended by
\* any path the chat has no handle and its typing timer is cleared.
C16_NoHandleNoTypingAfterTurn ==
  \A c \in ALLOWED_CHAT_IDS :
    /\ activeAborts[c] => turn[c].pc # "idle"
    /\ turn[c].ext => lastCancel[c] # ""
    /\ turn[c].pc = "idle" => ~activeAborts[c] /\ typingIntervals[c] = 0

C20_PruneLowestOfChat ==
  [][\A c \in ALLOWED_CHAT_IDS :
       turn[c].pc = "agent" /\ turn'[c].pc = "sending" /\ turn'[c].logged =>
         LET fresh   == <<DEFAULT_SALIENCE, now \div 1000>>
             pre     == [memories[c] EXCEPT ![fresh] = @ + turn'[c].ingested]
             count   == MemoryTotal(pre)
             excess  == IF count > MAX_MEMORIES_PER_CHAT
                        THEN count - MAX_MEMORIES_PER_CHAT ELSE 0
             removed == [cl \in MemClasses |-> pre[cl] - memories'[c][cl]]
         IN /\ MemoryTotal(memories'[c]) <= MAX_MEMORIES_PER_CHAT
            /\ \A cl \in MemClasses : removed[cl] >= 0
            /\ MemoryTotal(removed) = excess
            /\ \A a, b \in MemClasses :
                 ClassLess(a, b) /\ removed[b] > 0 => memories'[c][a] = 0
            /\ \A d \in ALLOWED_CHAT_IDS \ {c} : memories'[d] = memories[d]
    ]_vars

\* C20 witness: a turn that inserted three rows into a chat at the cap was
\* pruned by three: the chat's oldest row of the lowest salience and two of
\* the rows just inserted, the other chat staying at the cap
C20_Witness ==
  \E c \in ALLOWED_CHAT_IDS :
    /\ turn[c].pc = "sending"
    /\ turn[c].ingested = 3
    /\ turn[c].pruned = 3
    /\ now \div 1000 > 0
    /\ memories[c][<<DEFAULT_SALIENCE, 0>>] = 0
    /\ memories[c][<<DEFAULT_SALIENCE, now \div 1000>>] = 1
    /\ MemoryTotal(memories[c]) = MAX_MEMORIES_PER_CHAT
    /\ \A d \in ALLOWED_CHAT_IDS \ {c} :
         MemoryTotal(memories[d]) = MAX_MEMORIES_PER_CHAT

\* C27: a task leaves the wait at the gate only as the oldest waiter, by a
\* hand-over of a released slot; a task that reaches the gate is granted a
\* slot at once only when nobody waits, and otherwise joins the waiters at
\* the end; the order of the waiters never changes.
C27_GateFifo ==
  [][/\ \A r \in LiveRefs :
          T(r).phase = "waiting" /\ tasks'[r[1]][r[2]].phase # "waiting" =>
            /\ r = Head(concurrencyWaiters)
            /\ tasks'[r[1]][r[2]].phase = "granted"
            /\ concurrencyWaiters' = Tail(concurrencyWaiters)
            /\ activeConcurrent' = activeConcurrent
     /\ \A r \in LiveRefs :
          T(r).phase = "chained" /\ tasks'[r[1]][r[2]].phase = "granted" =>
            concurrencyWaiters = <<>>
     /\ \A r \in LiveRefs :
          T(r).phase = "chained" /\ tasks'[r[1]][r[2]].phase = "waiting" =>
            concurrencyWaiters' = Append(concurrencyWaiters, r)
     /\ concurrencyWaiters' # concurrencyWaiters =>
          \/ concurrencyWaiters # <<>>
             /\ concurrencyWaiters' = Tail(concurrencyWaiters)
          \/ \E r \in LiveRefs :
               concurrencyWaiters' = Append(concurrencyWaiters, r)
    ]_vars

\* C27 witness: of two tasks waiting at the gate the older one was handed
\* the released slot and the younger one still waits
C27_Witness ==
  /\ Len(concurrencyWaiters) = 1
  /\ activeConcurrent = MAX_CONCURRENT
  /\ \E r \in LiveRefs :
       /\ T(r).phase = "granted"
       /\ T(r).kind = "turn"
       /\ T(Head(concurrencyWaiters)).kind = "turn"
       /\ r[1] # Head(concurrencyWaiters)[1]
  /\ \E r \in LiveRefs : T(r).kind = "sched" /\ T(r).phase = "running"
  /\ \E r \in LiveRefs : T(r).kind = "sched" /\ T(r).phase \in {"settled", "done"}

\* C28: a task that waits for its chat predecessor holds no slot and is not
\* among the waiters of the gate; a task whose predecessor has settled is
\* granted a slot at once whenever fewer than MAX_CONCURRENT slots are held,
\* whatever number of tasks is queued behind running tasks of other chats.
C28_QueuedTasksHoldNoSlot ==
  /\ [](/\ activeConcurrent =
             Cardinality({r \in LiveRefs : T(r).phase \in {"granted", "running"}})
        /\ \A r \in LiveRefs :
             T(r).phase = "chained" =>
               \A i \in 1..Len(concurrencyWaiters) : concurrencyWaiters[i] # r)
  /\ [][\A r \in LiveRefs :
          /\ T(r).phase = "chained"
          /\ tasks'[r[1]][r[2]].phase # "chained"
          /\ PrevState(r) = "fulfilled"
          /\ activeConcurrent < MAX_CONCURRENT
          => tasks'[r[1]][r[2]].phase = "granted"]_vars

\* C28 witness: chat A has a running task and a queued one, and the task of
\* another key, enqueued later, executes
C28_Witness ==
  \E a \in Keys, b \in Keys :
    /\ a # b
    /\ Len(tasks[a]) = 2
    /\ tasks[a][1].phase = "running"
    /\ tasks[a][2].phase = "chained"
    /\ Len(tasks[b]) = 1
    /\ tasks[b][1].phase = "running"
    /\ concurrencyWaiters = <<>>

\* C29: the tracking map holds an entry for a key exactly while the chain of
\* the key's last enqueued task has not settled, and the entry is that task;
\* between the continuations of the event loop this is exactly while some
\* task of the key has not settled; the entry is never removed while a later
\* task of the key is pending, and the map is never larger than the number of
\* keys with unsettled tasks.
C29_EntryWhileUnsettled ==
  /\ \A k \in Keys :
       /\ chatQueues[k] # 0 <=>
            (tasks[k] # <<>> /\ tasks[k][Len(tasks[k])].phase # "done")
       /\ chatQueues[k] # 0 => chatQueues[k] = Len(tasks[k])
       /\ chatQueues[k] = 0 =>
            \A i \in 1..Len(tasks[k]) : tasks[k][i].chain # "pending"
       /\ ~MicrotaskPending =>
            (chatQueues[k] # 0 <=>
               \E i \in 1..Len(tasks[k]) : tasks[k][i].next = "pending")
  /\ Cardinality({k \in Keys : chatQueues[k] # 0}) <=
       Cardinality({k \in Keys :
                      \E i \in 1..Len(tasks[k]) : tasks[k][i].chain = "pending"})

\* C29 witness: the first task of a key is done and its cleanup left the
\* entry of the second, still pending, in place; later the key has no entry
C29_Witness ==
  \E k \in Keys :
    /\ Len(tasks[k]) = 2
    /\ tasks[k][1].phase = "done"
    /\ tasks[k][2].phase = "running"
    /\ tasks[k][2].prev = 1
    /\ chatQueues[k] = 2
    /\ \E k2 \in Keys : tasks[k2] # <<>> /\ chatQueues[k2] = 0

\* C26: when the executor of a sweep's task has rejected, the continuation of
\* the sweep writes last_run = now, a last_result beginning with "ERROR: "
\* and a next_run after now to the task's row unless that update throws, and
\* in either case invokes the executor of the next task of the sweep's list
\* (the sweep ends only after the last one).
C26_FailureDoesNotStopSweep ==
  [][\A s \in SweepIds :
       /\ sweeps[s].stage = "executing"
       /\ T(sweeps[s].ref).next = "rejected"
       /\ sweeps'[s] # sweeps[s]
       => LET id == sweeps[s].list[sweeps[s].idx]
              n  == Len(sweeps[s].list)
          IN /\ ~sweeps'[s].updateThrew =>
                  /\ scheduled_tasks'[id].last_run = now \div 1000
                  /\ scheduled_tasks'[id].last_result.head = "ERROR: "
                  /\ scheduled_tasks'[id].next_run > now \div 1000
             /\ sweeps'[s].updateThrew =>
                  scheduled_tasks'[id] = scheduled_tasks[id]
             /\ sweeps[s].idx < n =>
                  LET nxt == sweeps[s].list[sweeps[s].idx + 1]
                      key == TaskKey(scheduled_tasks[nxt].chat_id)
                  IN /\ sweeps'[s].stage = "executing"
                     /\ sweeps'[s].idx = sweeps[s].idx + 1
                     /\ sweeps'[s].ref = <<key, Len(tasks[key]) + 1>>
                     /\ Len(tasks'[key]) = Len(tasks[key]) + 1
                     /\ tasks'[key][Len(tasks'[key])].kind = "sched"
             /\ sweeps[s].idx = n => sweeps'[s].stage = "idle"
    ]_vars

\* C26 witness: the first task of a sweep failed and its update threw (its
\* row is untouched), and the second task of the same sweep is executing
C26_Witness ==
  \E s \in SweepIds :
    /\ sweeps[s].stage = "executing"
    /\ sweeps[s].idx = 2
    /\ sweeps[s].updateThrew
    /\ scheduled_tasks[sweeps[s].list[1]].last_run = -1
    /\ T(sweeps[s].ref).phase = "running"

\* C26 witness of the recorded failure: the first task's row carries the
\* error and an advanced next_run while the second task executes
C26_WitnessRecorded ==
  \E s \in SweepIds :
    /\ sweeps[s].stage = "executing"
    /\ sweeps[s].idx = 2
    /\ ~sweeps[s].updateThrew
    /\ scheduled_tasks[sweeps[s].list[1]].last_result.head = "ERROR: "
    /\ scheduled_tasks[sweeps[s].list[1]].next_run > now \div 1000

\* an event that records an error
SetsError(ev) ==
  \/ ev.type = "assistant" /\ ev.error \in {"authentication_failed", "billing_error"}
  \/ ev.type = "auth_status" /\ ev.error # ""
  \/ ev.type = "result" /\ ev.subtype # "success"

\* C23: when the stream of a run ended without a throw, the run's error is
\* set exactly if some event of the stream was an assistant event with
\* authentication_failed or billing_error, an auth_status event with an
\* error, or a result event with a subtype other than success; during the
\* stream the same holds of the events so far, so no later event clears it.
C23_ErrorIffErrorEvent ==
  (run.pc = "streaming" \/ (run.pc = "returned" /\ run.thrown = "" /\ run.queried)) =>
    (run.error # "" <=>
       \E i \in 1..Len(run.events) : SetsError(run.events[i]))

\* C23 witness: a stream of authentication_failed, rate_limit and a success
\* result has returned, and the error of the first event is still recorded
C23_Witness ==
  /\ run.pc = "returned"
  /\ run.thrown = ""
  /\ Len(run.events) = 3
  /\ run.events[1].error = "authentication_failed"
  /\ run.events[2].error = "rate_limit"
  /\ run.events[3].type = "result" /\ run.events[3].subtype = "success"
  /\ run.error = "authentication_failed"

\* the usage-carrying result events of the run so far
UsageResults ==
  {i \in 1..Len(run.events) :
     run.events[i].type = "result" /\ run.events[i].usage}
LastUsageResult == CHOOSE i \in UsageResults : \A j \in UsageResults : j <= i
CacheBefore(k) ==
  {i \in 1..(k - 1) :
     run.events[i].type = "assistant" /\ run.events[i].cacheRead > 0}

\* C30: the usage record exists exactly if a result event carried usage
\* figures; it then has didCompact exactly if a compact_boundary event came
\* before that result event, and lastCallCacheRead equal to the cache-read
\* figure of the latest assistant event before it whose figure was positive,
\* 0 if there was none.
C30_UsageReflectsEarlierEvents ==
  /\ run.usage.set <=> UsageResults # {}
  /\ run.usage.set =>
       LET k == LastUsageResult
       IN /\ run.usage.didCompact <=>
               \E j \in 1..(k - 1) :
                 run.events[j].type = "system"
                 /\ run.events[j].subtype = "compact_boundary"
          /\ run.usage.lastCallCacheRead =
               IF CacheBefore(k) = {} THEN 0
               ELSE run.events[CHOOSE i \in CacheBefore(k) :
                                 \A j \in CacheBefore(k) : j <= i].cacheRead

\* C30 witness: a compaction and two assistant events with different
\* figures came before the result; the record has the later figure
C30_Witness ==
  /\ run.pc = "returned"
  /\ Len(run.events) = 3
  /\ run.events[1].cacheRead = 7
  /\ run.events[2].cacheRead = 5
  /\ run.events[3].type = "result" /\ run.events[3].usage
  /\ run.usage.set /\ run.usage.lastCallCacheRead = 5
  /\ ~run.usage.didCompact

\* C24: a run entered with an aborted signal returns "cancelled" and has
\* called neither query nor setTimeout nor addEventListener; every run that
\* has returned has no pending timer and no listener left on the signal.
C24_AbortedEntryAndCleanup ==
  /\ run.pc = "returned" /\ ~run.queried =>
       /\ run.error = "cancelled"
       /\ run.text = CANCELLED_LINE
       /\ ~run.armed /\ ~run.listened
       /\ run.events = <<>>
  /\ run.pc = "returned" => ~run.timer /\ ~run.subscribed
  /\ run.pc = "returned" /\ run.queried =>
       /\ run.armed
       /\ run.listened <=> run.hasSignal

\* C24 witness: a run with a signal that was cancelled in mid-stream has
\* returned with nothing left behind
C24_Witness ==
  /\ run.pc = "returned"
  /\ run.queried /\ run.listened /\ run.armed
  /\ run.error = "cancelled"
  /\ run.events # <<>>

\* the text is the chunks in order, with nothing but whitespace between and
\* after them
RECURSIVE Rebuilds(_, _)
Rebuilds(text, chunks) ==
  IF chunks = <<>> THEN \A i \in 1..Len(text) : text[i] \in Whitespace
  ELSE LET c == Head(chunks)
       IN /\ Len(c) <= Len(text)
          /\ SubSeq(text, 1, Len(c)) = c
          /\ \E k \in Len(c)..Len(text) :
               /\ \A i \in (Len(c) + 1)..k : text[i] \in Whitespace
               /\ IF Tail(chunks) = <<>> THEN k = Len(text)
                  ELSE Rebuilds(SubSeq(text, k + 1, Len(text)), Tail(chunks))

\* C25: every pass through the loop of splitMessage shortens the remaining
\* text (so the call returns); when it has returned every chunk is at most
\* maxLen long, no chunk of a split text is empty, a text that fits the
\* window is returned as it is, and the text is the chunks in order with
\* only whitespace left out after each of them.
C25_SplitMessage ==
  /\ [](split.pc = "done" =>
          /\ \A i \in 1..Len(split.chunks) :
               Len(split.chunks[i]) <= split.maxLen
          /\ Len(split.chunks) >= 1
          /\ Len(split.text) <= split.maxLen =>
               split.chunks = <<split.text>>
          /\ Len(split.chunks) > 1 =>
               \A i \in 1..Len(split.chunks) : split.chunks[i] # <<>>
          /\ Rebuilds(split.text, split.chunks))
  /\ [][split.pc = "loop" =>
          \/ split'.pc = "done"
          \/ Len(split'.remaining) < Len(split.remaining)]_vars

\* C25 witness: a text split at a newline whose following indentation was
\* consumed
C25_Witness ==
  /\ split.pc = "done"
  /\ split.text = <<"a", "\n", " ", "a">>
  /\ split.maxLen = 2
  /\ split.chunks = << <<"a">>, <<"a">> >>

\* C22: an update of a chat outside ALLOWED_CHAT_IDS changes nothing: the
\* rate-limit windows, the chat queues, the cancellation handles, the voice
\* toggles and the tables are as before, and no chat outside the list is
\* ever replied to.
C22_OutsiderChangesNothing ==
  /\ [](sent \subseteq ALLOWED_CHAT_IDS /\ voiceEnabledChats \subseteq ALLOWED_CHAT_IDS)
  /\ [][lastUpdate'.n # lastUpdate.n /\ lastUpdate'.chat \notin ALLOWED_CHAT_IDS =>
          UNCHANGED <<liveVars, voiceEnabledChats, sent>>]_vars

\* C22 witness: an update of a chat outside the list was received after an
\* allowed chat had a text message admitted and its voice mode switched on
C22_Witness ==
  /\ lastUpdate.chat = "3"
  /\ lastUpdate.kind = "voice"
  /\ voiceEnabledChats = {"1"}
  /\ rateLimitWindows["1"] # <<>>
  /\ sent = {"1"}

\* C21: a row that is in the table has a salience of at least
\* MEMORY_MIN_SALIENCE and at most the touch cap, in particular after a
\* sweep; a sweep never raises the salience of a row, and a sweep that
\* computes a salience below the minimum deletes the row.
C21_SalienceWithinBounds ==
  /\ [](memRow.state = "live" =>
          /\ memRow.salience >= MEMORY_MIN_SALIENCE
          /\ memRow.salience <= TOUCH_CAP)
  /\ [][memRow'.last = "decay" /\ memRow' # memRow =>
          /\ memRow'.salience <= memRow.salience
          /\ memRow'.state = "deleted" =>
               Decayed(memRow.salience, hour - memRow.accessed_at)
                 < MEMORY_MIN_SALIENCE]_vars

\* C21 witness: a row more than a day old was lowered by a sweep and is
\* still in the table
C21_Witness ==
  /\ memRow.state = "live"
  /\ memRow.last = "decay"
  /\ memRow.salience < INSERT_SALIENCE
  /\ memRow.salience < 2 * MEMORY_MIN_SALIENCE

\* C21 witness of the other ends: a row deleted by a sweep, and a row at
\* the cap
C21_WitnessDeleted == memRow.state = "deleted" /\ memRow.last = "decay"
C21_WitnessCap == memRow.state = "live" /\ memRow.salience = TOUCH_CAP

\* C40: a sweep that rewrites a row which was never touched leaves the
\* salience that one sweep at that time would leave on the inserted row:
\* the inserted salience decayed over the hours since the row's last access,
\* however many sweeps ran before.
C40_DecayIndependentOfSweeps ==
  [][/\ memRow.touches = 0
     /\ memRow.state = "live"
     /\ memRow'.last = "decay"
     /\ memRow' # memRow
     => /\ memRow'.state = "live"
        /\ memRow'.salience =
             Decayed(INSERT_SALIENCE, hour - memRow.accessed_at)]_vars

\* C32: whenever the PID file is removed, it is removed by the process it
\* names: releaseLock of a process never removes a file that holds the pid
\* of another process.
C32_RemovesOnlyOwnFile ==
  [][pidFile # NoFile /\ pidFile' = NoFile =>
       \E p \in Pids : proc'[p] # proc[p] /\ pidFile = FileOf(p)]_vars

\* C38: a process that has left through process.exit has not left a PID file
\* holding its own pid behind.
C38_ExitRemovesOwnFile ==
  \A p \in Pids : proc[p].pc = "exited" => pidFile # FileOf(p)

\* C34: whenever a sweep begins an executor invocation, the task it invokes
\* the executor for is active (neither paused nor deleted) at that moment.
C34_InvokedTaskIsActive ==
  [][\A s \in SweepIds :
       /\ sweeps'[s].stage = "executing"
       /\ \/ sweeps[s].stage # "executing"
          \/ sweeps[s].idx # sweeps'[s].idx
       => scheduled_tasks'[sweeps'[s].list[sweeps'[s].idx]].status
            = "active"]_vars

\* C39: once stopScheduler has returned, no sweep begins an executor
\* invocation.
C39_NoInvocationAfterStop ==
  [][stopped =>
       \A s \in SweepIds :
         ~ /\ sweeps'[s].stage = "executing"
           /\ \/ sweeps[s].stage # "executing"
              \/ sweeps[s].idx # sweeps'[s].idx]_vars

\* C33: a turn of chat c that read a binding when it started and finds the
\* store without a binding for c when its agent run returns (a /newchat
\* cleared it while the turn was in flight) leaves the store without a
\* binding for c.
C33_InFlightTurnKeepsCleared ==
  [][\A c \in ALLOWED_CHAT_IDS :
       /\ turn[c].pc = "agent"
       /\ turn'[c].pc = "sending"
       /\ turn[c].sid # NoSession
       /\ GetSession(sessions, c) = NoSession
       => GetSession(sessions', c) = NoSession]_vars

\* C37: a turn whose handle /cancel found and aborted (the command answered
\* "Cancelling current request...") has an agent run that returned with
\* error "cancelled": once the run has returned, and after the turn ended.
C37_CancelledRunReportsCancelled ==
  \A c \in ALLOWED_CHAT_IDS :
    /\ turn[c].ext /\ turn[c].pc \in {"sending", "failing"}
         => turn[c].error = "cancelled"
    /\ turnLog[c].last.ext => turnLog[c].last.error = "cancelled"

\* C36: a turn that installs its handle for chat c finds no entry for c, and
\* a turn whose finally finds an entry for c finds the one it installed.
C36_HandleOfOwnTurnOnly ==
  [][\A c \in ALLOWED_CHAT_IDS :
       /\ abortOwner'[c] # abortOwner[c] => ~activeAborts[c]
       /\ \A n \in 1..Len(tasks[c]) :
            /\ tasks[c][n].phase = "running"
            /\ tasks'[c][n].phase = "settled"
            /\ activeAborts[c]
            => abortOwner[c] = n]_vars

\* the second turn of a chat holds its handle after /cancel removed the
\* handle of the first turn, whose finally found the entry absent
C36_Witness ==
  \E c \in ALLOWED_CHAT_IDS :
    /\ Len(tasks[c]) >= 2
    /\ tasks[c][1].phase \in {"settled", "done"}
    /\ tasks[c][2].phase = "running"
    /\ activeAborts[c]
    /\ abortOwner[c] = 2
    /\ lastCancel[c] = CANCELLING

\* C35: with every body settling, again and again every task passed to
\* enqueue so far has had its body called and its promise settled: no task
\* stays behind its chat's chain or at the gate for ever.
C35_EveryTaskRunsAndSettles ==
  []<>(\A r \in LiveRefs : T(r).ran /\ T(r).next # "pending")

\* every task of a full behaviour has run and settled, one chat holding a
\* chain of at least two tasks and more tasks than slots having been enqueued
C35_Witness ==
  /\ TotalTasks = MaxTasks
  /\ \E k \in Keys : k \notin ALLOWED_CHAT_IDS /\ tasks[k] # <<>>
  /\ TotalTasks > MAX_CONCURRENT
  /\ \A r \in LiveRefs : T(r).ran /\ T(r).phase = "done"
  /\ \E k \in Keys : Len(tasks[k]) >= 2

\* C31: in a turn that logs, both appends to the conversation log happen
\* after the agent result is received and before the reply is sent, and
\* after the turn's decisions on the episodic row and on the semantic facts.
StepAt(t, step) == CHOOSE i \in 1..Len(t.steps) : t.steps[i] = step
C31_LogAfterIngestDecisions ==
  \A c \in ALLOWED_CHAT_IDS :
    \A t \in {turn[c], turnLog[c].last} :
      t.logged =>
        /\ t.pc # "agent"
        /\ t.pc = "sending" => t.replies = <<>>
        /\ \A l \in {"log user", "log assistant"} :
             \A d \in {"decide episodic", "decide facts"} :
               StepAt(t, d) < StepAt(t, l)
====
